---- MODULE Spec2Model ----
(***************************************************************************)
(* Verification model of the ScannerPlatform pattern scanner:               *)
(*   scanner/pattern_detector.py   Candle, PatternDetector                  *)
(*   scanner/aggregator.py         weekly / monthly aggregation, adjacency  *)
(*   scanner/scanner_engine.py     ScannerEngine                            *)
(*   scanner/enhanced_scanner_engine.py  EnhancedScannerEngine              *)
(*   scanner/dhan_client.py        DhanClient, retry_on_failure             *)
(*   database/db_manager.py, database/sqlite_db_manager.py  daily_ohlc      *)
(*   database/smart_data_manager.py  SmartDataManager                       *)
(*                                                                         *)
(* Prices are integers; every percentage comparison of the code             *)
(* (x / y * 100 >= t) is evaluated exactly by cross-multiplication.         *)
(* Dates are day numbers counted from 1970-01-01.                           *)
(***************************************************************************)
EXTENDS Integers, Sequences, FiniteSets, TLC

VARIABLES
    \* ---- pattern matcher (PatternDetector) ----
    c1,                 \* first candle handed to the detector
    c2,                 \* second candle handed to the detector
    doji_threshold,     \* PatternDetector.doji_threshold (percent)
    min_body_move_pct,  \* the caller's body-move filter (percent)
    match,              \* outcome of matches_marubozu_doji + filter_by_min_body_move
    match_again,        \* outcome of the same calls made once more on the same candles
    \* ---- ScannerEngine.scan_symbol ----
    df,                 \* the daily frame handed to scan_symbol (rows in given order)
    timeframe,          \* "1D", "1W" or "1M"
    min_days,           \* TimeframeAggregator.min_days_weekly / min_days_monthly
    scanned,            \* what scan_symbol computed: df_agg, pairs, results
    \* ---- the daily_ohlc table ----
    backend,            \* "postgres" (DatabaseManager) or "sqlite" (SQLiteDBManager)
    daily_ohlc,         \* the rows of the table
    ohlc_seq,           \* SQLite's AUTOINCREMENT counter of ohlc_id
    upsert_log,         \* history of the bulk_insert_daily_ohlc calls (table specification)
    \* ---- SmartDataManager ----
    symbols,            \* the rows of the symbols table
    today,              \* datetime.now().date()
    cache_hit_rate,     \* SmartDataManager.cache_hit_rate
    call,               \* the last get_historical_data call and what it did
    \* ---- a DhanClient method under retry_on_failure ----
    func,               \* the decorated method being called
    plan,               \* what the upstream does on each request of the call
    attempt,            \* the wrapper's loop variable
    slept,              \* the waits of time.sleep so far in the call
    pc,                 \* "idle" between calls, "try" inside the wrapper's loop
    result,             \* what the call handed back, or "raised"
    calls_made,         \* number of calls begun
    payload,            \* response["data"] of the request that ended the call, row by row
    returned,           \* the DataFrame the call handed back
    \* ---- a scan ----
    engine,             \* "ScannerEngine" or "EnhancedScannerEngine"
    request,            \* the arguments of scan and how the symbols behave
    response,           \* what scan handed back
    \* ---- rate_limit around DhanClient.get_historical_data ----
    clock,              \* time.time(), in ticks
    last_called,        \* last_called[0] of the wrapper's closure
    tpc,                \* where each worker thread is inside the wrapper
    wake,               \* when each thread's time.sleep(wait) is over
    started,            \* when each thread's underlying call started (NotStarted: not yet)
    \* ---- SmartDataManager._is_data_complete ----
    checked,            \* the last _is_data_complete call: its arguments and its result
    \* ---- DhanClient.get_batch_historical_data ----
    batch_request,      \* the symbols asked for and how each one's fetches end
    bpc,                \* where the call is: "idle", "submit", "fetching", "retry", "done", "raised"
    batch_i,            \* the loop variable i of the batches
    work_queue,         \* submitted fetches no worker has taken yet, oldest first
    in_flight,          \* the symbols whose get_historical_data call is running
    fetch_count,        \* per symbol, how many get_historical_data calls were started
    batch_results,      \* results: per symbol "none", or the fetch that gave its frame
    failed_symbols,     \* failed_symbols, in the order the failures were seen
    retry_i,            \* position of the individual retry loop in failed_symbols
    batch_pauses,       \* number of time.sleep(2) calls so far
    \* ---- concurrent bulk_insert_daily_ohlc calls, one connection each ----
    txn,                \* per worker: where its call is, the records left, the rows it wrote
    store_before,       \* the rows of daily_ohlc before the calls
    \* ---- one symbol of a weekly / monthly scan of the enhanced and sqlite engines ----
    agg_engine,         \* "EnhancedScannerEngine" or "SQLiteScannerEngine"
    agg_tf,             \* the timeframe of the scan: "1W" or "1M"
    agg_daily,          \* the daily rows of the symbol, ascending dates
    agg_patterns,       \* the patterns reported for the symbol
    \* ---- one SQLiteScannerEngine._fetch_with_retries call ----
    fwr_call,           \* the call: whether the symbol has a security id, max_retries, what each upstream call does
    fwr_pc,             \* where the call is: "start", "loop", "after", "done"
    fwr_attempt,        \* the loop variable attempt
    fwr_log,            \* the upstream calls and the sleeps made, in order
    fwr_result,         \* what the call returned
    \* ---- the web layer: concurrent POST /api/scan requests ----
    scan_in_progress,   \* the global flag of app.py
    scanner_ready,      \* whether scanner_engine was initialized
    web_requests,       \* per request: where its handler is, its symbols, whether a scan ran when it looked at the flag
    web_threads         \* per request: where the run_scan thread it started is

matcherVars == <<c1, c2, doji_threshold, min_body_move_pct, match, match_again>>

symbolVars == <<df, timeframe, min_days, scanned>>

storeVars == <<backend, daily_ohlc, ohlc_seq, upsert_log>>

sdmVars == <<symbols, today, cache_hit_rate, call>>

retryVars == <<func, plan, attempt, slept, pc, result, calls_made, payload, returned>>

scanVars == <<engine, request, response>>

limitVars == <<clock, last_called, tpc, wake, started>>

completeVars == <<checked>>

batchVars == <<batch_request, bpc, batch_i, work_queue, in_flight, fetch_count, batch_results, failed_symbols, retry_i, batch_pauses>>

workersVars == <<txn, store_before>>

adjacentVars == <<agg_engine, agg_tf, agg_daily, agg_patterns>>

fetchVars == <<fwr_call, fwr_pc, fwr_attempt, fwr_log, fwr_result>>

webVars == <<scan_in_progress, scanner_ready, web_requests, web_threads>>

vars == <<matcherVars, symbolVars, storeVars, sdmVars, retryVars, scanVars, limitVars, completeVars, batchVars, workersVars, adjacentVars, fetchVars, webVars>>

----------------------------------------------------------------------------
(* Bounds of the model *)

\* prices range over 0 .. MaxPrice
MaxPrice == 5

\* a daily frame holds at most MaxBars rows
MaxBars == 3

\* the dates of daily rows are SampleDay(0) .. SampleDay(MaxDateIdx)
MaxDateIdx == 5

\* longest symbol list handed to scan
MaxSymbols == 2

\* largest 'history' handed to scan
MaxHistory == 2

\* number of rows in the data of an upstream response
MaxRows == 2

\* the clock of the rate limiter stops at MaxTicks
MaxTicks == 6

\* the largest number of symbols handed to get_batch_historical_data
MaxBatchSymbols == 11

\* rows of the frame and days of the span handed to _is_data_complete
MaxCount == 12

MaxSpan == 20

\* the period dates lie in the years 2020 .. 2020 + MaxYears
MaxYears == 2

\* number of daily rows of a frame of period dates
MaxPeriods == 4

\* number of daily rows of a symbol in a weekly / monthly scan
MaxDailyRows == 3

\* max_retries of a _fetch_with_retries call ranges over 0 .. MaxFetchRetries
MaxFetchRetries == 5

\* number of POST /api/scan requests
MaxRequests == 3

\* min_body_move_pct ranges over 0 .. MaxMove (percent)
MaxMove == 7

\* number of bulk_insert_daily_ohlc calls in a behaviour of the table
MaxUpserts == 2

\* largest days_back asked of SmartDataManager.get_historical_data
MaxDaysBack == 2

\* cap of the cache_hit_rate counters
MaxHits == 1

\* number of decorated DhanClient calls in a behaviour
MaxCalls == 2

----------------------------------------------------------------------------
(* Small helpers *)

Abs(x) == IF x < 0 THEN -x ELSE x

Max2(a, b) == IF a >= b THEN a ELSE b

Min2(a, b) == IF a <= b THEN a ELSE b

\* num / den rounded to the nearest integer, ties to even (Python's round);
\* den > 0, num >= 0
RoundDiv(num, den) ==
    LET q == num \div den
        r == num % den
    IN  IF 2 * r < den THEN q
        ELSE IF 2 * r > den THEN q + 1
        ELSE IF q % 2 = 0 THEN q ELSE q + 1

----------------------------------------------------------------------------
(* scanner/pattern_detector.py : Candle *)

Prices == 0 .. MaxPrice

NoCandle == [open |-> 0, high |-> 0, low |-> 0, close |-> 0, volume |-> 0]

\* The candles the detector is exercised on: every OHLC combination over
\* Prices that satisfies the Bar invariant low <= open, close <= high.
Candles ==
    { [open |-> o, high |-> h, low |-> l, close |-> c, volume |-> 1] :
        <<o, h, l, c>> \in
            { q \in Prices \X Prices \X Prices \X Prices :
                /\ q[3] <= q[1] /\ q[1] <= q[2]
                /\ q[3] <= q[4] /\ q[4] <= q[2] } }

body(candle) == Abs(candle.close - candle.open)

range(candle) == candle.high - candle.low

\* body_pct >= t, for body_pct = 0 when range = 0, else body / range * 100
body_pct_ge(candle, t) ==
    IF range(candle) = 0 THEN 0 >= t
    ELSE IF range(candle) > 0 THEN body(candle) * 100 >= t * range(candle)
    ELSE body(candle) * 100 <= t * range(candle)

\* body_pct in hundredths of a percent, rounded as round(body_pct, 2)
body_pct_x100(candle) ==
    IF range(candle) = 0 THEN 0
    ELSE IF range(candle) > 0 THEN RoundDiv(body(candle) * 10000, range(candle))
    ELSE -RoundDiv(body(candle) * 10000, -range(candle))

is_bullish(candle) == candle.close > candle.open

is_bearish(candle) == candle.close < candle.open

\* body_move_pct >= t, for body_move_pct = 0 when open = 0, else body / open * 100
body_move_pct_ge(candle, t) ==
    IF candle.open = 0 THEN 0 >= t
    ELSE IF candle.open > 0 THEN body(candle) * 100 >= t * candle.open
    ELSE body(candle) * 100 <= t * candle.open

body_move_pct_x100(candle) ==
    IF candle.open = 0 THEN 0
    ELSE IF candle.open > 0 THEN RoundDiv(body(candle) * 10000, candle.open)
    ELSE -RoundDiv(body(candle) * 10000, -candle.open)

\* the divisors of the divisions Candle.body_pct and Candle.body_move_pct carry
\* out: none when the property returns 0 before dividing
body_pct_divisors(candle) ==
    IF range(candle) = 0 THEN {} ELSE {range(candle)}

\* body_move_pct dividing without looking at open first
body_move_pct_unguarded(candle) == {candle.open}

body_move_pct_divisors(candle) ==
    IF candle.open = 0 THEN {} ELSE {candle.open}

----------------------------------------------------------------------------
(* scanner/pattern_detector.py : PatternDetector *)

\* PatternDetector.marubozu_threshold = 0.8 * 100
marubozu_threshold == 80

\* doji_threshold: 0.20 * 100 by default in PatternDetector, 25 hard-coded in
\* the detection loops of the enhanced and sqlite engines
DojiThresholds == {20, 25}

\* min_body_move_pct values a caller passes (4.0 is the default of scan)
MinBodyMoves == {0, 4, 100}

is_marubozu(candle) ==
    IF range(candle) = 0 THEN FALSE
    ELSE body_pct_ge(candle, marubozu_threshold)

\* the doji test with the boundary included (body_pct <= doji_threshold)
is_doji_inclusive(candle, thr) ==
    IF range(candle) = 0 THEN FALSE
    ELSE IF range(candle) > 0 THEN body(candle) * 100 <= thr * range(candle)
    ELSE body(candle) * 100 >= thr * range(candle)

\* body_pct < doji_threshold
is_doji(candle, thr) ==
    IF range(candle) = 0 THEN FALSE
    ELSE ~body_pct_ge(candle, thr)

\* rejection strength in hundredths of a percent
calculate_rejection_strength(a, b, direction) ==
    IF direction = "bullish"
    THEN IF b.high = b.low THEN 0
         ELSE RoundDiv((b.high - b.close) * 10000, b.high - b.low)
    ELSE IF b.high = b.low THEN 0
         ELSE RoundDiv((b.close - b.low) * 10000, b.high - b.low)

NoMatch == [matched |-> FALSE]

\* the detector has not been run yet
Pending == [matched |-> FALSE, pending |-> TRUE]

\* the (pattern_found, pattern_details) pair of matches_marubozu_doji
matches_marubozu_doji(a, b, thr) ==
    IF ~is_marubozu(a) THEN NoMatch
    ELSE IF ~is_doji(b, thr) THEN NoMatch
    ELSE
      LET direction == IF is_bullish(a) THEN "bullish" ELSE "bearish"
          breaks == IF is_bullish(a) THEN ~(b.high <= a.high)
                                     ELSE ~(b.low >= a.low)
          closes_inside ==
              IF is_bullish(a) THEN a.open < b.close /\ b.close < a.close
                               ELSE a.close < b.close /\ b.close < a.open
      IN  IF ~breaks THEN NoMatch
          ELSE IF ~closes_inside THEN NoMatch
          ELSE [ matched |-> TRUE,
                 direction |-> direction,
                 marubozu_body_pct |-> body_pct_x100(a),
                 doji_body_pct |-> body_pct_x100(b),
                 marubozu_body_move_pct |-> body_move_pct_x100(a),
                 breakout_amount |-> b.high - a.high,
                 rejection_strength |->
                     calculate_rejection_strength(a, b, direction) ]

\* the divisors of the division _calculate_rejection_strength carries out
rejection_divisors(b) ==
    IF b.high = b.low THEN {} ELSE {b.high - b.low}

\* the divisors of every division carried out by matches_marubozu_doji(a, b):
\* body_pct of a unless its range is 0, body_pct of b when a is a marubozu and
\* b's range is not 0, and body_move_pct of a and the rejection strength when
\* the pattern is found
matcher_divisors(a, b, thr) ==
    (IF range(a) = 0 THEN {} ELSE body_pct_divisors(a))
    \cup (IF is_marubozu(a) /\ range(b) # 0 THEN body_pct_divisors(b) ELSE {})
    \cup (IF matches_marubozu_doji(a, b, thr).matched
          THEN body_move_pct_divisors(a) \cup rejection_divisors(b)
          ELSE {})

\* a filter that lets every candle pass
no_body_move_filter(candle, minMove) == TRUE

filter_by_min_body_move(candle, minMove) == body_move_pct_ge(candle, minMove)

\* the per-pair step of a scan: detector first, then the body-move filter
MatchPair(a, b, thr, minMove) ==
    LET d == matches_marubozu_doji(a, b, thr)
    IN  IF ~d.matched THEN NoMatch
        ELSE IF ~filter_by_min_body_move(a, minMove) THEN NoMatch
        ELSE d

----------------------------------------------------------------------------
(* The calendar: what datetime / pandas compute for a day number            *)
(* (proleptic Gregorian calendar, day 0 = 1970-01-01, a Thursday)           *)

\* the civil date [y, m, d] of a day number
CivilFromDays(n) ==
    LET z   == n + 719468
        era == z \div 146097
        doe == z - era * 146097
        yoe == (doe - doe \div 1460 + doe \div 36524 - doe \div 146096) \div 365
        doy == doe - (365 * yoe + yoe \div 4 - yoe \div 100)
        mp  == (5 * doy + 2) \div 153
        d   == doy - (153 * mp + 2) \div 5 + 1
        m   == IF mp < 10 THEN mp + 3 ELSE mp - 9
    IN  [y |-> yoe + era * 400 + (IF m <= 2 THEN 1 ELSE 0), m |-> m, d |-> d]

\* the day number of a civil date
DaysFromCivil(y, m, d) ==
    LET yy  == IF m <= 2 THEN y - 1 ELSE y
        era == yy \div 400
        yoe == yy - era * 400
        doy == (153 * (IF m > 2 THEN m - 3 ELSE m + 9) + 2) \div 5 + d - 1
        doe == yoe * 365 + yoe \div 4 - yoe \div 100 + doy
    IN  era * 146097 + doe - 719468

\* date.weekday(): Monday = 0 .. Sunday = 6
weekday(n) == (n + 3) % 7

\* the ISO year and week of a day: those of the Thursday of its week
IsoFromDays(n) ==
    LET thursday == n - weekday(n) + 3
        y == CivilFromDays(thursday).y
    IN  [year |-> y, week |-> (thursday - DaysFromCivil(y, 1, 1)) \div 7 + 1]

----------------------------------------------------------------------------
(* Daily frames *)

\* Dates of the daily rows exercised: two days of ISO week 2020-W52, one of
\* 2020-W53 (2020 has 53 ISO weeks), one of 2021-W01, one of 2021-W05, one of
\* 2021-W52 (2021 has 52 ISO weeks), one of 2022-W01, then one per later week.
SampleDay(k) ==
    CASE k = 0 -> 18618      \* Tue 2020-12-22
      [] k = 1 -> 18620      \* Thu 2020-12-24
      [] k = 2 -> 18625      \* Tue 2020-12-29
      [] k = 3 -> 18632      \* Tue 2021-01-05
      [] k = 4 -> 18660      \* Tue 2021-02-02
      [] k = 5 -> 18989      \* Tue 2021-12-28
      [] k = 6 -> 18996      \* Tue 2022-01-04
      [] OTHER -> 18996 + 7 * (k - 6)

SampleDays == { SampleDay(k) : k \in 0 .. MaxDateIdx }

\* datetime.now().date(): Wed 2021-01-06 .. Sun 2021-01-10
Todays == 18633 .. 18637

\* the days the store and the adapter can be asked about
CallDays == { d - k : d \in Todays, k \in 0 .. MaxDaysBack + 1 }

\* datetime.now().date() of the scan: Fri 2021-01-08
ScanToday == 18635

\* the days a scan can read: the span of the longest days_back
ScanDays == (ScanToday - MaxHistory * 30) .. ScanToday

\* ISO weeks 1, 5, 7 and 52 of a year: 4 January lies in week 1; the dates
\* fall in January, February, February and December
PeriodWeeks == {1, 5, 7, 52}

PeriodYears == 2020 .. 2020 + MaxYears

PeriodDays ==
    { DaysFromCivil(y, 1, 4) + 7 * (w - 1) : y \in PeriodYears, w \in PeriodWeeks }

\* the calendar, tabulated over the dates in use
CalendarTable ==
    [n \in SampleDays \cup CallDays \cup ScanDays \cup PeriodDays |-> [civil |-> CivilFromDays(n), iso |-> IsoFromDays(n)]]

\* date.year, date.month
year(n) == CalendarTable[n].civil.y

month(n) == CalendarTable[n].civil.m

\* date.isocalendar()
isocalendar(n) == CalendarTable[n].iso

\* OHLCV values of the daily rows exercised: a bullish dominant bar, a bearish
\* dominant bar, and a zero-body bar that breaks both the high and the low of
\* either and closes inside their body.
SampleBars ==
    { [open |-> 1, high |-> 4, low |-> 1, close |-> 4, volume |-> 1],
      [open |-> 4, high |-> 4, low |-> 1, close |-> 1, volume |-> 2],
      [open |-> 2, high |-> 5, low |-> 0, close |-> 2, volume |-> 3] }

Row(date, bar) ==
    [date |-> date, open |-> bar.open, high |-> bar.high, low |-> bar.low,
     close |-> bar.close, volume |-> bar.volume]

SampleRows == { Row(d, b) : d \in SampleDays, b \in SampleBars }

DatesOf(frame) == { frame[i].date : i \in 1 .. Len(frame) }

----------------------------------------------------------------------------
(* scanner/aggregator.py *)

\* a check that also asks for a range above zero
positive_range_ohlc(row) ==
    IF row.low >= row.high THEN FALSE
    ELSE IF ~(row.low <= row.open /\ row.open <= row.high) THEN FALSE
    ELSE IF ~(row.low <= row.close /\ row.close <= row.high) THEN FALSE
    ELSE TRUE

validate_ohlc(row) ==
    IF row.low > row.high THEN FALSE
    ELSE IF ~(row.low <= row.open /\ row.open <= row.high) THEN FALSE
    ELSE IF ~(row.low <= row.close /\ row.close <= row.high) THEN FALSE
    ELSE TRUE

RECURSIVE InsertByDate(_, _)
InsertByDate(sorted, row) ==
    IF sorted = <<>> THEN <<row>>
    ELSE IF row.date < Head(sorted).date THEN <<row>> \o sorted
    ELSE <<Head(sorted)>> \o InsertByDate(Tail(sorted), row)

\* the frame left in the order it was given (no sort)
unsorted(frame) == frame

\* df.set_index('date').sort_index(), sort_values('date'): ascending dates
RECURSIVE sort_index(_)
sort_index(frame) ==
    IF frame = <<>> THEN <<>>
    ELSE InsertByDate(sort_index(SubSeq(frame, 1, Len(frame) - 1)), frame[Len(frame)])

\* the groupby key of a date: (ISO year, ISO week) or (year, month)
PeriodKey(date, tf) ==
    IF tf = "1W" THEN <<isocalendar(date).year, isocalendar(date).week>>
    ELSE <<year(date), month(date)>>

RECURSIVE SeqMax(_, _)
SeqMax(g, field) ==
    IF Len(g) = 1 THEN g[1][field]
    ELSE Max2(g[1][field], SeqMax(Tail(g), field))

RECURSIVE SeqMin(_, _)
SeqMin(g, field) ==
    IF Len(g) = 1 THEN g[1][field]
    ELSE Min2(g[1][field], SeqMin(Tail(g), field))

RECURSIVE SeqSum(_, _)
SeqSum(g, field) ==
    IF g = <<>> THEN 0 ELSE g[1][field] + SeqSum(Tail(g), field)

\* the row built from one group g (already in date order)
GroupRow(g) ==
    [date |-> g[Len(g)].date,
     open |-> g[1].open,
     high |-> SeqMax(g, "high"),
     low |-> SeqMin(g, "low"),
     close |-> g[Len(g)].close,
     volume |-> SeqSum(g, "volume"),
     days |-> Len(g)]

\* the loop over the groups without the test of len(g) against min_days
RECURSIVE every_group(_, _, _)
every_group(sorted, tf, minDays) ==
    IF sorted = <<>> THEN <<>>
    ELSE
      LET k == PeriodKey(Head(sorted).date, tf)
          InGroup(r) == PeriodKey(r.date, tf) = k
          NotInGroup(r) == PeriodKey(r.date, tf) # k
          g == SelectSeq(sorted, InGroup)
          rest == every_group(SelectSeq(sorted, NotInGroup), tf, minDays)
      IN  IF validate_ohlc(GroupRow(g)) THEN <<GroupRow(g)>> \o rest
          ELSE rest

\* the loop over the groups of a date-sorted frame
RECURSIVE GroupRows(_, _, _)
GroupRows(sorted, tf, minDays) ==
    IF sorted = <<>> THEN <<>>
    ELSE
      LET k == PeriodKey(Head(sorted).date, tf)
          InGroup(r) == PeriodKey(r.date, tf) = k
          NotInGroup(r) == PeriodKey(r.date, tf) # k
          g == SelectSeq(sorted, InGroup)
          rest == GroupRows(SelectSeq(sorted, NotInGroup), tf, minDays)
      IN  IF Len(g) < minDays THEN rest
          ELSE IF validate_ohlc(GroupRow(g)) THEN <<GroupRow(g)>> \o rest
          ELSE rest

aggregate_to_weekly(frame, minDays) ==
    sort_index(GroupRows(sort_index(frame), "1W", minDays))

aggregate_to_monthly(frame, minDays) ==
    sort_index(GroupRows(sort_index(frame), "1M", minDays))

\* whether every row carries the 'date' (or 'timestamp') column
has_date_column(frame) == \A i \in 1 .. Len(frame) : "date" \in DOMAIN frame[i]

\* what stands for a ValueError of TimeframeAggregator.aggregate: a one-row
\* sequence no frame equals
ValueError == <<[raised |-> TRUE]>>

\* TimeframeAggregator.aggregate; ValueError stands for the ValueError of an
\* unknown timeframe or of a frame without a date column
aggregate(frame, tf, minDays) ==
    IF tf = "1D" THEN frame
    ELSE IF tf \notin {"1W", "1M"} THEN ValueError
    ELSE IF ~has_date_column(frame) THEN ValueError
    ELSE IF tf = "1W" THEN aggregate_to_weekly(frame, minDays)
    ELSE aggregate_to_monthly(frame, minDays)

\* monthly adjacency within one year only
consecutive_within_year(cur, nxt, tf) ==
    IF tf = "1M" THEN year(cur) = year(nxt) /\ month(nxt) = month(cur) + 1
    ELSE TRUE

\* whether rows i and i + 1 of an aggregated frame count as consecutive
consecutive(cur, nxt, tf) ==
    IF tf = "1W"
    THEN LET current_week == isocalendar(cur)
             next_week == isocalendar(nxt)
         IN  IF current_week.year = next_week.year
                /\ next_week.week = current_week.week + 1 THEN TRUE
             ELSE IF current_week.year = next_week.year - 1
                     /\ current_week.week >= 52 /\ next_week.week = 1 THEN TRUE
             ELSE FALSE
    ELSE IF tf = "1M"
    THEN IF year(cur) = year(nxt) /\ month(nxt) = month(cur) + 1 THEN TRUE
         ELSE IF year(cur) = year(nxt) - 1 /\ month(cur) = 12 /\ month(nxt) = 1
              THEN TRUE
         ELSE FALSE
    ELSE TRUE

\* every index pair, whatever the dates
every_index_pair(agg, tf) == [i \in 1 .. Len(agg) - 1 |-> i]

\* the list of (i, i + 1) pairs, in increasing i
check_consecutive_periods(agg, tf) ==
    IF Len(agg) < 2 THEN <<>>
    ELSE LET Keep(i) == consecutive(agg[i].date, agg[i + 1].date, tf)
             Idx == [i \in 1 .. Len(agg) - 1 |-> i]
         IN  SelectSeq(Idx, Keep)

----------------------------------------------------------------------------
(* scanner/scanner_engine.py : ScannerEngine.scan_symbol *)

\* ScannerEngine's detector: PatternDetector(marubozu_threshold = 0.8,
\* doji_threshold = 0.20)
engine_doji_threshold == 20

\* min_body_move_pct default of ScannerEngine.scan
default_min_body_move_pct == 4

Timeframes == {"1D", "1W", "1M"}

\* TimeframeAggregator(min_days_weekly = 1, min_days_monthly = 1)
default_min_days == 1

to_candle(row) ==
    [date |-> row.date, open |-> row.open, high |-> row.high, low |-> row.low,
     close |-> row.close, volume |-> row.volume]

\* the result dict appended for a matching pair
ResultOf(a, b, i, details, tf) ==
    [idx1 |-> i, idx2 |-> i + 1,
     timeframe |-> tf,
     pattern_direction |-> details.direction,
     marubozu |-> a,
     doji |-> b,
     breakout_amount |-> details.breakout_amount,
     rejection_strength |-> details.rejection_strength]

\* the loop over consecutive_pairs
RECURSIVE ScanPairs(_, _, _, _, _)
ScanPairs(candles, pairs, thr, minMove, tf) ==
    IF pairs = <<>> THEN <<>>
    ELSE
      LET i == Head(pairs)
          a == candles[i]
          b == candles[i + 1]
          details == matches_marubozu_doji(a, b, thr)
          rest == ScanPairs(candles, Tail(pairs), thr, minMove, tf)
      IN  IF ~details.matched THEN rest
          ELSE IF ~filter_by_min_body_move(a, minMove) THEN rest
          ELSE <<ResultOf(a, b, i, details, tf)>> \o rest

\* _to_candle_list
to_candle_list(df_agg) == [i \in 1 .. Len(df_agg) |-> to_candle(df_agg[i])]

\* consecutive_pairs of scan_symbol
consecutive_pairs(df_agg, tf) ==
    IF tf \in {"1W", "1M"} THEN check_consecutive_periods(df_agg, tf)
    ELSE [i \in 1 .. Len(df_agg) - 1 |-> i]

\* what scan_symbol has at its return: the aggregated frame, the pairs it
\* matched over, the results it returns, and whether the except clause ran
ScanOutcome(df_agg, pairs, results, raised) ==
    [df_agg |-> df_agg, pairs |-> pairs, results |-> results, raised |-> raised]

\* scan_symbol from the aggregated frame on
scan_aggregated(df_agg, tf, minMove) ==
    IF df_agg = ValueError THEN ScanOutcome(<<>>, <<>>, <<>>, TRUE)
    ELSE IF Len(df_agg) < 2 THEN ScanOutcome(df_agg, <<>>, <<>>, FALSE)
    ELSE IF ~has_date_column(df_agg) THEN ScanOutcome(<<>>, <<>>, <<>>, TRUE)
    ELSE ScanOutcome(df_agg, consecutive_pairs(df_agg, tf),
                     ScanPairs(to_candle_list(df_agg), consecutive_pairs(df_agg, tf),
                               engine_doji_threshold, minMove, tf),
                     FALSE)

\* scan_symbol: aggregate, then find the consecutive pairs, then match
scan_symbol(frame, tf, minMove, minDays) ==
    scan_aggregated(aggregate(frame, tf, minDays), tf, minMove)

----------------------------------------------------------------------------
(* database/db_manager.py, database/sqlite_db_manager.py : daily_ohlc        *)

Backends == {"postgres", "sqlite"}

StoreSymbolIds == {1, 2}

\* Wed 2021-01-06, Thu 2021-01-07
StoreDates == {18633, 18634}

\* a record handed to bulk_insert_daily_ohlc
OhlcRecord(symbol_id, trade_date, bar) ==
    [symbol_id |-> symbol_id, trade_date |-> trade_date,
     open |-> bar.open, high |-> bar.high, low |-> bar.low,
     close |-> bar.close, volume |-> bar.volume]

\* two of the sample bars: a bullish and a bearish one
StoreBars == { b \in SampleBars : b.close # b.open }

OhlcRecords ==
    { OhlcRecord(s, d, b) : s \in StoreSymbolIds, d \in StoreDates, b \in StoreBars }

\* the data of one call: one record, or two records in either order
Batches ==
    { <<r>> : r \in OhlcRecords } \cup { <<r1, r2>> : r1, r2 \in OhlcRecords }

\* the conflict target: UNIQUE (symbol_id, trade_date)
KeyOf(r) == <<r.symbol_id, r.trade_date>>

Conflicting(table, record) == { r \in table : KeyOf(r) = KeyOf(record) }

\* plain INSERT, no conflict clause
pg_insert(table, record) == table \cup {record}

\* DatabaseManager: INSERT ... ON CONFLICT (symbol_id, trade_date) DO UPDATE SET
\* open, high, low, close, volume = EXCLUDED.*  -- the row stays, five columns change
pg_upsert(table, record) ==
    IF Conflicting(table, record) = {}
    THEN table \cup {record}
    ELSE { IF KeyOf(r) = KeyOf(record)
           THEN [r EXCEPT !.open = record.open, !.high = record.high,
                          !.low = record.low, !.close = record.close,
                          !.volume = record.volume]
           ELSE r : r \in table }

\* SQLiteDBManager: the derived columns computed before the statement;
\* the two quotients are kept as exact fractions <<numerator, denominator>>
sqlite_row(record, ohlc_id) ==
    [ohlc_id |-> ohlc_id,
     symbol_id |-> record.symbol_id, trade_date |-> record.trade_date,
     open |-> record.open, high |-> record.high, low |-> record.low,
     close |-> record.close, volume |-> record.volume,
     body_size |-> Abs(record.close - record.open),
     range_size |-> record.high - record.low,
     body_pct |-> IF record.high - record.low > 0
                  THEN <<Abs(record.close - record.open) * 100, record.high - record.low>>
                  ELSE <<0, 1>>,
     change_pct |-> IF record.open > 0
                    THEN <<(record.close - record.open) * 100, record.open>>
                    ELSE <<0, 1>>,
     is_bullish |-> IF record.close > record.open THEN 1 ELSE 0]

\* INSERT OR REPLACE: the rows in conflict are deleted, a new row is inserted
\* under the next AUTOINCREMENT ohlc_id
sqlite_upsert(table, record, ohlc_id) ==
    (table \ Conflicting(table, record)) \cup {sqlite_row(record, ohlc_id)}

\* the table and the AUTOINCREMENT counter after the statements of one call
RECURSIVE bulk_insert_daily_ohlc(_, _, _, _)
bulk_insert_daily_ohlc(db, table, seq, data) ==
    IF data = <<>> THEN [table |-> table, seq |-> seq]
    ELSE IF db = "postgres"
         THEN bulk_insert_daily_ohlc(db, pg_upsert(table, Head(data)), seq, Tail(data))
         ELSE bulk_insert_daily_ohlc(db, sqlite_upsert(table, Head(data), seq + 1),
                                     seq + 1, Tail(data))

\* the columns a reader selects: key and OHLCV
StoredValues(table) ==
    { [symbol_id |-> r.symbol_id, trade_date |-> r.trade_date,
       open |-> r.open, high |-> r.high, low |-> r.low,
       close |-> r.close, volume |-> r.volume] : r \in table }

StoreKeys == StoreSymbolIds \X StoreDates

NoRecord == [symbol_id |-> 0]

\* history of the calls: the record most recently upserted under each key,
\* whether every record of the last call was stored already before it, whether
\* the last call left the stored values as they were, the number of calls
NoUpserts ==
    [latest |-> [k \in StoreKeys |-> NoRecord], repeat |-> FALSE, same |-> TRUE, n |-> 0]

RECURSIVE LatestAfter(_, _)
LatestAfter(latest, data) ==
    IF data = <<>> THEN latest
    ELSE LatestAfter([latest EXCEPT ![KeyOf(Head(data))] = Head(data)], Tail(data))

----------------------------------------------------------------------------
(* database/smart_data_manager.py : SmartDataManager                         *)

\* _identify_missing_dates looks at no more than this many weekdays
missing_lookback == 10

SdmSymbols == {"RELIANCE"}

\* a frame read from the store or handed back by the adapter; none is the
\* Optional's None
NoneFrame == [none |-> TRUE, rows |-> <<>>]

Frame(rows) == [none |-> FALSE, rows |-> rows]

\* SELECT symbol_id FROM symbols WHERE symbol = %s
SymbolRows(symtab, sym) == { s \in symtab : s.symbol = sym }

SymbolIdOf(symtab, sym) == (CHOOSE s \in SymbolRows(symtab, sym) : TRUE).symbol_id

\* INSERT INTO symbols ... RETURNING symbol_id
WithSymbol(symtab, sym) ==
    IF SymbolRows(symtab, sym) # {} THEN symtab
    ELSE symtab \cup {[symbol |-> sym, symbol_id |-> Cardinality(symtab) + 1]}

DfRow(r) ==
    [timestamp |-> r.trade_date, open |-> r.open, high |-> r.high,
     low |-> r.low, close |-> r.close, volume |-> r.volume]

\* ORDER BY trade_date
RECURSIVE OrderByTradeDate(_)
OrderByTradeDate(rows) ==
    IF rows = {} THEN <<>>
    ELSE LET first == CHOOSE r \in rows : \A q \in rows : r.trade_date <= q.trade_date
         IN  <<DfRow(first)>> \o OrderByTradeDate(rows \ {first})

SelectDaily(table, symbol_id, start_date, end_date) ==
    { r \in table : /\ r.symbol_id = symbol_id
                    /\ start_date <= r.trade_date
                    /\ r.trade_date <= end_date }

\* _get_daily_from_db: None when the symbol has no row in symbols
get_daily_from_db(symtab, table, sym, start_date, end_date) ==
    IF SymbolRows(symtab, sym) = {} THEN NoneFrame
    ELSE Frame(OrderByTradeDate(
             SelectDaily(table, SymbolIdOf(symtab, sym), start_date, end_date)))

\* the expected trading days without the 80% threshold
expected_trading_days(expected_days) == (expected_days * 250) \div 365

\* int(expected_days * (250 / 365) * 0.8)
min_required(expected_days) == (expected_days * 250 * 8) \div (365 * 10)

is_data_complete(rows, start_date, end_date) ==
    IF rows = <<>> THEN FALSE
    ELSE Len(rows) >= min_required(end_date - start_date)

TimestampsOf(rows) == { rows[i].timestamp : i \in 1 .. Len(rows) }

\* the while loop of _identify_missing_dates, from current down to start_date
RECURSIVE MissingWalk(_, _, _, _)
MissingWalk(current, start_date, days_checked, existing_dates) ==
    IF ~(current >= start_date /\ days_checked < missing_lookback) THEN <<>>
    ELSE IF weekday(current) < 5
         THEN (IF current \notin existing_dates THEN <<current>> ELSE <<>>)
              \o MissingWalk(current - 1, start_date, days_checked + 1, existing_dates)
         ELSE MissingWalk(current - 1, start_date, days_checked, existing_dates)

identify_missing_dates(existing_df, start_date, end_date) ==
    IF existing_df.none THEN <<start_date, end_date>>
    ELSE MissingWalk(end_date, start_date, 0, TimestampsOf(existing_df.rows))

\* what the adapter does when asked: load_equity_instruments raises, or the
\* symbol is not in the mapping, or DhanClient.get_historical_data hands back
\* an empty frame, or a frame with the bar on the latest weekday of the window
\* (full = FALSE) or on every weekday of it (full = TRUE)
Upstreams ==
    { [kind |-> k, bar |-> NoCandle, full |-> FALSE] :
          k \in {"load_raises", "unmapped", "empty"} }
    \cup { [kind |-> "frame", bar |-> b, full |-> f] : b \in StoreBars, f \in BOOLEAN }

WindowDays(now, days_back) == { d \in (now - days_back) .. now : weekday(d) < 5 }

UpstreamDays(up, now, days_back) ==
    IF up.full THEN WindowDays(now, days_back)
    ELSE { d \in WindowDays(now, days_back) : \A e \in WindowDays(now, days_back) : e <= d }

\* the frame DhanClient.get_historical_data hands back, ascending timestamps
UpstreamRows(up, now, days_back) ==
    IF up.kind # "frame" THEN <<>>
    ELSE OrderByTradeDate({ OhlcRecord(0, d, up.bar) : d \in UpstreamDays(up, now, days_back) })

\* what a fetch does upstream before it hands back its frame
FetchEvents(up) ==
    IF up.kind \in {"load_raises", "unmapped"} THEN <<"load_instruments">>
    ELSE <<"load_instruments", "fetch">>

SeqMaxOf(s) == CHOOSE x \in { s[i] : i \in 1 .. Len(s) } : \A i \in 1 .. Len(s) : s[i] <= x

SeqMinOf(s) == CHOOSE x \in { s[i] : i \in 1 .. Len(s) } : \A i \in 1 .. Len(s) : x <= s[i]

\* _fetch_missing_from_api: days_range = (max_date - min_date).days + 1
fetch_missing_from_api(up, now, missing_dates) ==
    IF missing_dates = <<>> THEN <<>>
    ELSE UpstreamRows(up, now, SeqMaxOf(missing_dates) - SeqMinOf(missing_dates) + 1)

fetch_full_from_api(up, now, days_back) == UpstreamRows(up, now, days_back)

RecordsOf(symbol_id, rows) ==
    [i \in 1 .. Len(rows) |-> OhlcRecord(symbol_id, rows[i].timestamp, rows[i])]

\* _store_to_database: the symbols row is created when missing, then the
\* records go through DatabaseManager.bulk_insert_daily_ohlc
store_to_database(symtab, table, sym, rows) ==
    IF rows = <<>> THEN [symbols |-> symtab, daily_ohlc |-> table]
    ELSE [symbols |-> WithSymbol(symtab, sym),
          daily_ohlc |-> bulk_insert_daily_ohlc("postgres", table, 0,
                             RecordsOf(SymbolIdOf(WithSymbol(symtab, sym), sym), rows)).table]

DatedRow(r) ==
    [date |-> r.timestamp, open |-> r.open, high |-> r.high, low |-> r.low,
     close |-> r.close, volume |-> r.volume]

\* the row of one group, 'date' renamed to 'timestamp'
SdmGroupRow(g) ==
    [timestamp |-> g[Len(g)].date,
     open |-> g[1].open,
     high |-> SeqMax(g, "high"),
     low |-> SeqMin(g, "low"),
     close |-> g[Len(g)].close,
     volume |-> SeqSum(g, "volume"),
     days |-> Len(g)]

RECURSIVE SdmGroupRows(_, _)
SdmGroupRows(sorted, tf) ==
    IF sorted = <<>> THEN <<>>
    ELSE
      LET k == PeriodKey(Head(sorted).date, tf)
          InGroup(r) == PeriodKey(r.date, tf) = k
          NotInGroup(r) == PeriodKey(r.date, tf) # k
      IN  <<SdmGroupRow(SelectSeq(sorted, InGroup))>>
          \o SdmGroupRows(SelectSeq(sorted, NotInGroup), tf)

\* _aggregate_to_weekly / _aggregate_to_monthly of SmartDataManager
sdm_aggregate(rows, tf) ==
    SdmGroupRows(sort_index([i \in 1 .. Len(rows) |-> DatedRow(rows[i])]), tf)

\* step 4 of get_historical_data
step4(rows, tf) ==
    IF tf \in {"1W", "1M"} /\ rows # <<>> THEN sdm_aggregate(rows, tf) ELSE rows

\* what one get_historical_data call leaves behind: the store, the counters,
\* the calls it made in order, how it ended, the frame returned, the gap found
Returned(symtab, table, hits, events, missing, rows) ==
    [symbols |-> symtab, daily_ohlc |-> table, cache_hit_rate |-> hits,
     events |-> events \o <<"return">>, outcome |-> "return",
     missing |-> missing, df |-> rows]

\* the ValueError of 'if api_data:' -- the truth value of a DataFrame
Raised(symtab, table, hits, events, missing) ==
    [symbols |-> symtab, daily_ohlc |-> table, cache_hit_rate |-> hits,
     events |-> events \o <<"raise">>, outcome |-> "raise",
     missing |-> missing, df |-> <<>>]

\* the fallback of step 3: full fetch, stored when not empty, and handed back
full_api_fetch(q, db, events, missing, api_rows) ==
    IF api_rows # <<>>
    THEN Returned(store_to_database(db.symbols, db.daily_ohlc, q.symbol, api_rows).symbols,
                  store_to_database(db.symbols, db.daily_ohlc, q.symbol, api_rows).daily_ohlc,
                  db.cache_hit_rate, events \o <<"upsert">>, missing,
                  step4(api_rows, q.timeframe))
    ELSE Returned(db.symbols, db.daily_ohlc, db.cache_hit_rate, events, missing, <<>>)

\* step 3: the read after the backfill
step3(q, db, events, missing, reread) ==
    IF reread.none \/ reread.rows = <<>>
    THEN full_api_fetch(q, db, events \o FetchEvents(q.upstream), missing,
                        fetch_full_from_api(q.upstream, q.now, q.days_back))
    ELSE Returned(db.symbols, db.daily_ohlc, db.cache_hit_rate, events, missing,
                  step4(reread.rows, q.timeframe))

\* step 2 with the fetched frame left unstored and the call going on to step 3
step2_goes_on(q, db, events, missing) ==
    step3(q, db,
          (IF missing # <<>> THEN events \o FetchEvents(q.upstream) ELSE events)
              \o <<"read">>,
          missing,
          get_daily_from_db(db.symbols, db.daily_ohlc, q.symbol,
                            q.now - q.days_back, q.now))

\* step 2: 'if missing_dates:' fetches, and 'if api_data:' then raises whatever
\* frame came back, before anything is stored
step2(q, db, events, missing) ==
    IF missing # <<>>
    THEN Raised(db.symbols, db.daily_ohlc, db.cache_hit_rate,
                events \o FetchEvents(q.upstream), missing)
    ELSE step3(q, db, events \o <<"read">>, missing,
               get_daily_from_db(db.symbols, db.daily_ohlc, q.symbol,
                                 q.now - q.days_back, q.now))

\* step 1, taken for '1D' only: the completeness check on the first read
step1(q, db, first) ==
    IF q.timeframe = "1D" /\ ~first.none
       /\ is_data_complete(first.rows, q.now - q.days_back, q.now)
    THEN Returned(db.symbols, db.daily_ohlc,
                  [db.cache_hit_rate EXCEPT !.db = @ + 1], <<"read">>, <<>>, first.rows)
    ELSE step2(q, db, IF q.timeframe = "1D" THEN <<"read", "read">> ELSE <<"read">>,
               identify_missing_dates(first, q.now - q.days_back, q.now))

\* SmartDataManager.get_historical_data(symbol, days_back, timeframe), called
\* at date q.now with the adapter behaving as q.upstream
get_historical_data(q, db) ==
    step1(q, db, get_daily_from_db(db.symbols, db.daily_ohlc, q.symbol,
                                   q.now - q.days_back, q.now))

Query(sym, days_back, tf, now, up) ==
    [symbol |-> sym, days_back |-> days_back, timeframe |-> tf, now |-> now,
     upstream |-> up]

Database(symtab, table, hits) ==
    [symbols |-> symtab, daily_ohlc |-> table, cache_hit_rate |-> hits]

NoCall == [outcome |-> "none"]

----------------------------------------------------------------------------
(* scanner/dhan_client.py : retry_on_failure and the methods it decorates    *)

\* retry_on_failure(retries = 3, delay = 1.0)
retries == 3

delay == 1

\* the decorated methods: one whose body re-raises what the upstream call
\* raised, one whose body catches it
DecoratedMethods == {"load_equity_instruments", "get_historical_data"}

\* what the upstream request of one attempt does: raises, answers with a
\* status other than "success", or answers with the data
UpstreamResults == {"raise", "not_success", "ok"}

\* what the upstream would do on the first, second, third request of a call
Plans(f) ==
    IF f = "get_historical_data" THEN [1 .. retries -> UpstreamResults]
    ELSE [1 .. retries -> {"raise", "ok"}]

\* DhanClient.get_historical_data: 'status != success' returns an empty frame,
\* and 'except Exception' returns an empty frame too
get_historical_data_body(upstream) ==
    IF upstream = "ok" THEN [raised |-> FALSE, value |-> "bars"]
    ELSE IF upstream = "not_success" THEN [raised |-> FALSE, value |-> "empty"]
    ELSE [raised |-> FALSE, value |-> "empty"]

\* epoch seconds of the upstream's daily bars: midnight IST of 2021-01-04,
\* 2021-01-05, 2021-01-06
ResponseStamps == { 1609698600 + k * 86400 : k \in 0 .. 2 }

ResponseRows ==
    { [timestamp |-> t, open |-> b.open, high |-> b.high, low |-> b.low,
       close |-> b.close, volume |-> b.volume] :
          t \in ResponseStamps, b \in StoreBars }

\* data.get("timestamp", []), data.get("open", []), ... read row by row
ResponseData == UNION { [1 .. n -> ResponseRows] : n \in 0 .. MaxRows }

\* timestamps = pd.to_datetime(..., unit='s') + pd.Timedelta(days=1)
shift_one_day(rows) ==
    [i \in 1 .. Len(rows) |-> [rows[i] EXCEPT !.timestamp = @ + 86400]]

RECURSIVE InsertByTimestamp(_, _)
InsertByTimestamp(sorted, row) ==
    IF sorted = <<>> THEN <<row>>
    ELSE IF row.timestamp < Head(sorted).timestamp THEN <<row>> \o sorted
    ELSE <<Head(sorted)>> \o InsertByTimestamp(Tail(sorted), row)

\* df.sort_values("timestamp").reset_index(drop=True)
RECURSIVE sort_values(_)
sort_values(rows) ==
    IF rows = <<>> THEN <<>>
    ELSE InsertByTimestamp(sort_values(SubSeq(rows, 1, Len(rows) - 1)), rows[Len(rows)])

\* the frame in the order of the response
response_order(upstream, rows) ==
    IF upstream = "ok" THEN shift_one_day(rows) ELSE <<>>

\* the frame DhanClient.get_historical_data hands back: pd.DataFrame() for a
\* status other than "success" and in 'except Exception', the sorted bars
\* otherwise
historical_frame(upstream, rows) ==
    IF upstream = "ok" THEN sort_values(shift_one_day(rows)) ELSE <<>>

\* DhanClient.load_equity_instruments: 'except Exception' logs and re-raises
load_equity_instruments_body(upstream) ==
    IF upstream = "ok" THEN [raised |-> FALSE, value |-> "mapping"]
    ELSE [raised |-> TRUE, value |-> "none"]

\* func(*args, **kwargs) inside the wrapper
func_call(f, upstream) ==
    IF f = "get_historical_data" THEN get_historical_data_body(upstream)
    ELSE load_equity_instruments_body(upstream)

\* wait = delay * attempt
backoff(k) == delay * k

----------------------------------------------------------------------------
(* scanner/dhan_client.py : get_batch_historical_data                         *)
(* scanner/scanner_engine.py : ScannerEngine.scan                             *)

ScanUniverse == {"AAA", "BBB"}

SymbolLists == UNION { [1 .. n -> ScanUniverse] : n \in 1 .. MaxSymbols }

DominantBar == [open |-> 1, high |-> 4, low |-> 1, close |-> 4, volume |-> 1]

IndecisionBar == [open |-> 2, high |-> 5, low |-> 0, close |-> 2, volume |-> 3]

\* daily frames an upstream fetch hands back: one with a dominant bar followed
\* by an indecision bar a week later, one without, one lacking the date column
GoodFrame == <<Row(18618, DominantBar), Row(18625, IndecisionBar)>>

PlainFrame == <<Row(18618, IndecisionBar), Row(18625, DominantBar)>>

BrokenFrame == <<DominantBar, IndecisionBar>>

\* how a symbol behaves towards ScannerEngine.scan: not in the instrument
\* mapping; every fetch raises; every fetch is empty; the batch fetch is empty
\* and the individual retry succeeds; the fetch succeeds (with a pattern,
\* without one, or with a frame on which scan_symbol raises)
EngineBehaviours == {"unmapped", "raises", "empty", "late", "good", "plain", "broken"}

FrameOf(behaviour) ==
    IF behaviour \in {"late", "good"} THEN GoodFrame
    ELSE IF behaviour = "plain" THEN PlainFrame
    ELSE IF behaviour = "broken" THEN BrokenFrame
    ELSE <<>>

\* valid = [(s, mapping.get(s)) for s in symbols if mapping.get(s)]
valid_symbols(list, behaviour) ==
    LET Mapped(sym) == behaviour[sym] # "unmapped"
    IN  SelectSeq(list, Mapped)

SymbolsOf(list) == { list[i] : i \in 1 .. Len(list) }

\* the symbols whose future gave a non-empty frame
first_pass(valid, behaviour) ==
    { sym \in SymbolsOf(valid) : behaviour[sym] \in {"good", "plain", "broken"} }

\* failed_symbols, each fetched once more; those whose retry gave a frame
retry_pass(valid, behaviour) ==
    { sym \in SymbolsOf(valid) : behaviour[sym] = "late" }

Perms(S) ==
    { f \in [1 .. Cardinality(S) -> S] : \A i, j \in 1 .. Cardinality(S) : f[i] = f[j] => i = j }

\* the possible key orders of the results dict: futures complete in any
\* order, the retries come after every batch
BatchOrders(valid, behaviour) ==
    { o1 \o o2 : o1 \in Perms(first_pass(valid, behaviour)),
                 o2 \in Perms(retry_pass(valid, behaviour)) }

TagSymbol(results, sym) ==
    [i \in 1 .. Len(results) |-> [symbol |-> sym, match |-> results[i]]]

RECURSIVE engine_loop(_, _, _)

\* the body of 'for symbol, df in all_data.items()'
engine_symbol(sym, rest, p, acc, found) ==
    engine_loop(rest, p,
        [results |-> acc.results \o TagSymbol(found, sym),
         symbols_scanned |-> acc.symbols_scanned + 1,
         symbols_with_data |-> acc.symbols_with_data + 1,
         symbols_with_patterns |->
             acc.symbols_with_patterns + (IF found # <<>> THEN 1 ELSE 0)])

engine_loop(order, p, acc) ==
    IF order = <<>> THEN acc
    ELSE engine_symbol(Head(order), Tail(order), p, acc,
             scan_symbol(FrameOf(p.behaviour[Head(order)]), p.timeframe,
                         p.min_body_move_pct, default_min_days).results)

ScanResponse(acc, requested) ==
    [outcome |-> "returned",
     results |-> acc.results,
     statistics |-> [total_symbols_requested |-> requested,
                     symbols_scanned |-> acc.symbols_scanned,
                     symbols_with_data |-> acc.symbols_with_data,
                     symbols_with_patterns |-> acc.symbols_with_patterns,
                     total_patterns_found |-> Len(acc.results)]]

\* the scan did not return: an exception left it
ScanRaised == [outcome |-> "raised"]

NoScanAcc ==
    [results |-> <<>>, symbols_scanned |-> 0, symbols_with_data |-> 0,
     symbols_with_patterns |-> 0]

\* ScannerEngine.scan with the results dict in key order 'order';
\* load_equity_instruments raising leaves get_batch_historical_data and scan
engine_scan(p, order) ==
    IF ~p.instruments_ok THEN ScanRaised
    ELSE ScanResponse(engine_loop(order, p, NoScanAcc), Len(p.symbols))

----------------------------------------------------------------------------
(* The stores and adapters EnhancedScannerEngine.scan is run against          *)

Histories == 1 .. MaxHistory

\* the ten weekdays up to the day of the scan: Mon 2020-12-28 .. Fri 2021-01-08
RecentWeekdays == { d \in (ScanToday - 13) .. ScanToday : weekday(d) < 5 }

\* how a symbol stands towards EnhancedScannerEngine.scan: no row in symbols
\* and not in the instrument mapping; stored up to yesterday, with the adapter
\* failing to load the mapping, handing back nothing, or handing back the bar
\* of the day; stored on the day of the scan only; stored on all ten weekdays
\* (with a pattern, without one)
EnhancedBehaviours ==
    {"unknown", "gap_load_raises", "gap_empty", "gap_frame", "short", "good", "plain"}

ScanSymbolId(sym) == IF sym = "AAA" THEN 1 ELSE 2

\* dominant bars through 2020-W53 and on Thu 2021-01-07, indecision bars on
\* the other days of 2021-W01
GoodBarOn(d) == IF d < 18631 \/ d = 18634 THEN DominantBar ELSE IndecisionBar

StoredDaysOf(behaviour) ==
    IF behaviour \in {"good", "plain"} THEN RecentWeekdays
    ELSE IF behaviour = "short" THEN {ScanToday}
    ELSE IF behaviour = "unknown" THEN {}
    ELSE RecentWeekdays \ {ScanToday}

StoredRowsOf(sym, behaviour) ==
    { OhlcRecord(ScanSymbolId(sym), d,
                 IF behaviour = "plain" THEN IndecisionBar ELSE GoodBarOn(d)) :
          d \in StoredDaysOf(behaviour) }

\* the symbols table and daily_ohlc before the scan
SymbolsBefore(behaviour) ==
    { [symbol |-> sym, symbol_id |-> ScanSymbolId(sym)] :
          sym \in { x \in ScanUniverse : behaviour[x] # "unknown" } }

DailyBefore(behaviour) ==
    UNION { StoredRowsOf(sym, behaviour[sym]) : sym \in ScanUniverse }

\* what the adapter does for the symbol during the scan
UpstreamOf(p, sym) ==
    IF ~p.instruments_ok \/ p.behaviour[sym] = "gap_load_raises"
    THEN [kind |-> "load_raises", bar |-> NoCandle, full |-> FALSE]
    ELSE IF p.behaviour[sym] = "unknown"
    THEN [kind |-> "unmapped", bar |-> NoCandle, full |-> FALSE]
    ELSE IF p.behaviour[sym] = "gap_frame"
    THEN [kind |-> "frame", bar |-> IndecisionBar, full |-> FALSE]
    ELSE [kind |-> "empty", bar |-> NoCandle, full |-> FALSE]

----------------------------------------------------------------------------
(* scanner/enhanced_scanner_engine.py : EnhancedScannerEngine                 *)

\* the bounds written into _detect_marubozu_doji_patterns
enhanced_marubozu_threshold == 80

enhanced_doji_threshold == 25

\* c1_body_pct < 80, with c1_range # 0
enhanced_body_pct_lt(row, t) ==
    IF row.high - row.low > 0
    THEN Abs(row.close - row.open) * 100 < t * (row.high - row.low)
    ELSE Abs(row.close - row.open) * 100 > t * (row.high - row.low)

\* c1_body_move_pct < min_body_move_pct; a zero open divides to inf (or nan),
\* which is not below any bound
enhanced_body_move_lt(row, t) ==
    IF row.open = 0 THEN FALSE
    ELSE IF row.open > 0 THEN Abs(row.close - row.open) * 100 < t * row.open
    ELSE Abs(row.close - row.open) * 100 > t * row.open

enhanced_closes_inside(candle1, candle2) ==
    IF candle1.close > candle1.open
    THEN candle1.open < candle2.close /\ candle2.close < candle1.close
    ELSE candle1.close < candle2.close /\ candle2.close < candle1.open

\* one pass of the loop body: TRUE when the pair survives every 'continue'
enhanced_pair_matches(candle1, candle2, minMove) ==
    IF candle1.high - candle1.low = 0 THEN FALSE
    ELSE IF enhanced_body_pct_lt(candle1, enhanced_marubozu_threshold) THEN FALSE
    ELSE IF enhanced_body_move_lt(candle1, minMove) THEN FALSE
    ELSE IF candle2.high - candle2.low = 0 THEN FALSE
    ELSE IF ~enhanced_body_pct_lt(candle2, enhanced_doji_threshold) THEN FALSE
    ELSE IF candle2.high <= candle1.high THEN FALSE
    ELSE enhanced_closes_inside(candle1, candle2)

EnhancedPattern(candle1, candle2) ==
    [pattern_type |-> "marubozu_doji",
     pattern_direction |-> IF candle1.close > candle1.open THEN "bullish" ELSE "bearish",
     marubozu |-> [date |-> candle1.timestamp, open |-> candle1.open,
                   high |-> candle1.high, low |-> candle1.low,
                   close |-> candle1.close, volume |-> candle1.volume],
     doji |-> [date |-> candle2.timestamp, open |-> candle2.open,
               high |-> candle2.high, low |-> candle2.low,
               close |-> candle2.close, volume |-> candle2.volume]]

\* _detect_marubozu_doji_patterns: every pair of rows (i, i + 1)
RECURSIVE detect_from(_, _, _)
detect_from(rows, i, minMove) ==
    IF i >= Len(rows) THEN <<>>
    ELSE (IF enhanced_pair_matches(rows[i], rows[i + 1], minMove)
          THEN <<EnhancedPattern(rows[i], rows[i + 1])>> ELSE <<>>)
         \o detect_from(rows, i + 1, minMove)

detect_marubozu_doji_patterns(rows, minMove) ==
    IF Len(rows) < 2 THEN <<>> ELSE detect_from(rows, 1, minMove)

\* pattern['symbol'] = symbol; pattern['timeframe'] = timeframe
TagPatterns(patterns, sym, tf) ==
    [i \in 1 .. Len(patterns) |->
        [symbol |-> sym, timeframe |-> tf, match |-> patterns[i]]]

\* days_back = history if timeframe == "1D" else history * 30
enhanced_days_back(tf, history) == IF tf = "1D" THEN history ELSE history * 30

NoEnhancedAcc == [results |-> <<>>, successful_symbols |-> 0, failed_symbols |-> <<>>]

DatabaseAfter(r) == Database(r.symbols, r.daily_ohlc, r.cache_hit_rate)

RECURSIVE enhanced_loop(_, _, _, _)

\* the loop body: r is what data_manager.get_historical_data did; its
\* exception is caught and the symbol goes to failed_symbols
enhanced_symbol(sym, rest, db, p, acc, r) ==
    IF r.outcome = "raise"
    THEN enhanced_loop(rest, DatabaseAfter(r), p,
                       [acc EXCEPT !.failed_symbols = Append(@, sym)])
    ELSE IF Len(r.df) < 2 THEN enhanced_loop(rest, DatabaseAfter(r), p, acc)
    ELSE enhanced_loop(rest, DatabaseAfter(r), p,
             [acc EXCEPT !.results = @ \o TagPatterns(
                             detect_marubozu_doji_patterns(r.df, p.min_body_move_pct),
                             sym, p.timeframe),
                         !.successful_symbols = @ + 1])

\* 'for idx, symbol in enumerate(symbols, 1)', the store handed on from
\* symbol to symbol
enhanced_loop(list, db, p, acc) ==
    IF list = <<>> THEN [db |-> db, acc |-> acc, raised |-> FALSE]
    ELSE enhanced_symbol(Head(list), Tail(list), db, p, acc,
             get_historical_data(
                 Query(Head(list), enhanced_days_back(p.timeframe, p.history),
                       p.timeframe, ScanToday, UpstreamOf(p, Head(list))),
                 db))

EnhancedResponse(acc, p, hits) ==
    [outcome |-> "returned",
     results |-> acc.results,
     statistics |-> [symbols_scanned |-> Len(p.symbols),
                     successful_scans |-> acc.successful_symbols,
                     failed_scans |-> Len(acc.failed_symbols),
                     patterns_found |-> Len(acc.results),
                     api_calls_made |-> hits.api],
     failed_symbols |-> acc.failed_symbols]

\* what EnhancedScannerEngine.scan leaves: the store and its response
enhanced_done(p, ended) ==
    [db |-> ended.db,
     response |-> IF ended.raised THEN ScanRaised
                  ELSE EnhancedResponse(ended.acc, p, ended.db.cache_hit_rate)]

enhanced_scan(p, db) == enhanced_done(p, enhanced_loop(p.symbols, db, p, NoEnhancedAcc))

----------------------------------------------------------------------------
(* scanner/dhan_client.py : rate_limit                                        *)

\* rate_limit(calls_per_second = 3)
calls_per_second == 3

\* ThreadPoolExecutor(max_workers = 3)
max_workers == 3

\* ticks of the clock in one second
TicksPerSecond == 6

\* min_interval = 1.0 / calls_per_second
min_interval == TicksPerSecond \div calls_per_second

Threads == 1 .. max_workers

NotStarted == -1

\* wait = min_interval - (time.time() - last_called[0])
limit_wait(now, last) == min_interval - (now - last)

----------------------------------------------------------------------------
(* database/smart_data_manager.py : _is_data_complete called on its own      *)

NoCheck == [done |-> FALSE]

\* a frame of n rows as _get_daily_from_db hands it back: the n days up to
\* end_date, ascending
StoredFrame(n, end_date) ==
    OrderByTradeDate({ OhlcRecord(1, end_date - k, NoCandle) : k \in 0 .. n - 1 })

\* the call and what it returned
CheckedCall(rows, start_date, end_date) ==
    [df |-> rows, start_date |-> start_date, end_date |-> end_date, done |-> TRUE,
     result |-> is_data_complete(rows, start_date, end_date)]

----------------------------------------------------------------------------
(* scanner/dhan_client.py : DhanClient.get_batch_historical_data             *)

\* batch_size = 10
batch_size == 10

\* how the fetches of a symbol end: it is not in the instrument mapping, or its
\* first fetch gives data, or its first fetch gives an empty frame / raises
\* and its second gives data or ends the same way
FetchKinds ==
    {"unmapped", "data", "empty_data", "empty_empty", "raise_data", "raise_raise"}

\* what the n-th get_historical_data call of a symbol of that kind does
fetch_outcome(kind, n) ==
    IF kind = "data" THEN "data"
    ELSE IF n = 1 THEN (IF kind \in {"empty_data", "empty_empty"} THEN "empty" ELSE "raise")
    ELSE IF kind \in {"empty_data", "raise_data"} THEN "data"
    ELSE IF kind = "empty_empty" THEN "empty"
    ELSE "raise"

\* valid = [(s, mapping.get(s)) for s in symbols if mapping.get(s)]: the
\* positions of the mapped symbols, in the order given
batch_valid(req) ==
    LET Mapped(s) == req.kind[s] # "unmapped"
    IN  SelectSeq([s \in 1 .. req.count |-> s], Mapped)

\* total_batches = (len(valid) + batch_size - 1) // batch_size
total_batches(req) == (Len(batch_valid(req)) + batch_size - 1) \div batch_size

\* batch = valid[i * batch_size : min((i + 1) * batch_size, len(valid))]
batch_of(req, i) ==
    SubSeq(batch_valid(req), i * batch_size + 1,
           Min2((i + 1) * batch_size, Len(batch_valid(req))))

\* a pause after every batch
pause_after_every_batch(i, total) == TRUE

\* if i < total_batches - 1: time.sleep(2)
pause_due(i, total) == i < total - 1

NoBatchRequest == [count |-> 0, kind |-> <<>>, instruments |-> "ok"]

----------------------------------------------------------------------------
(* database/db_manager.py : bulk_insert_daily_ohlc calls running at once,    *)
(* each on the connection get_connection opens for it                        *)

\* the rows a transaction sees: the committed rows, with its own writes in
\* place of the committed rows of the same key
txn_view(table, written) ==
    { r \in table : \A q \in written : KeyOf(q) # KeyOf(r) } \cup written

\* the row an INSERT ... ON CONFLICT DO UPDATE statement leaves for its key
txn_row(table, written, record) ==
    CHOOSE r \in pg_upsert(txn_view(table, written), record) : KeyOf(r) = KeyOf(record)

\* the rows written by the transaction after the statement
txn_write(table, written, record) ==
    { q \in written : KeyOf(q) # KeyOf(record) } \cup {txn_row(table, written, record)}

\* a commit that puts the transaction's rows in place of the whole table
commit_replaces_table(table, written) == written

\* conn.commit(): the rows written become the committed rows of their keys
commit_rows(table, written) == txn_view(table, written)

----------------------------------------------------------------------------
(* scanner/dhan_client.py : DhanClient._aggregate_to_weekly / _monthly and   *)
(* the per-symbol step of SQLiteScannerEngine.scan and                       *)
(* EnhancedScannerEngine.scan                                                *)

\* for (y, w), g in grouped: one row per group, no test on the group
RECURSIVE DhanGroupRows(_, _)
DhanGroupRows(sorted, tf) ==
    IF sorted = <<>> THEN <<>>
    ELSE
      LET k == PeriodKey(Head(sorted).date, tf)
          InGroup(r) == PeriodKey(r.date, tf) = k
          NotInGroup(r) == PeriodKey(r.date, tf) # k
      IN  <<GroupRow(SelectSeq(sorted, InGroup))>>
          \o DhanGroupRows(SelectSeq(sorted, NotInGroup), tf)

\* DhanClient._aggregate_to_weekly / _aggregate_to_monthly
dhan_aggregate(frame, tf) == sort_index(DhanGroupRows(sort_index(frame), tf))

\* df['timestamp'] = pd.to_datetime(df['date'])
with_timestamp(frame) ==
    [i \in 1 .. Len(frame) |->
        [timestamp |-> frame[i].date, open |-> frame[i].open, high |-> frame[i].high,
         low |-> frame[i].low, close |-> frame[i].close, volume |-> frame[i].volume]]

\* the daily rows as SmartDataManager holds them: 'timestamp' for 'date'
stored_rows(frame) == with_timestamp(frame)

\* the loop body of SQLiteScannerEngine.scan for one symbol and timeframe,
\* given the daily frame _fetch_with_retries returned
sqlite_scan_symbol(daily, tf, minMove) ==
    IF Len(daily) < 2 THEN <<>>
    ELSE LET agg == IF tf = "1W" \/ tf = "1M" THEN dhan_aggregate(daily, tf) ELSE daily
         IN  IF Len(agg) < 2 THEN <<>>
             ELSE detect_marubozu_doji_patterns(with_timestamp(agg), minMove)

\* the loop body of EnhancedScannerEngine.scan for one symbol, given the
\* frame data_manager.get_historical_data returned
enhanced_scan_symbol(frame, minMove) ==
    IF Len(frame) < 2 THEN <<>>
    ELSE detect_marubozu_doji_patterns(frame, minMove)

----------------------------------------------------------------------------
(* scanner/sqlite_scanner_engine.py : SQLiteScannerEngine._fetch_with_retries *)

\* max_retries: int = 5
default_fetch_retries == 5

\* return None
NoneReturned == [returned |-> TRUE, none |-> TRUE]

\* return df, the frame of the k-th upstream call
FrameReturned(k) == [returned |-> TRUE, none |-> FALSE, frame |-> k]

NotReturned == [returned |-> FALSE]

\* what one pass of the try block does with the outcome of
\* self.dhan.get_historical_data: a non-empty frame is returned, an empty
\* frame or None falls through, an exception is caught by 'except Exception'
try_block(outcome) ==
    IF outcome = "data" THEN "return"
    ELSE IF outcome = "empty" THEN "fall through"
    ELSE "caught"

\* a sleep after every attempt, the last one included
backoff_after_every_attempt(k, max_retries) == TRUE

\* if attempt < max_retries - 1: time.sleep(2)
backoff_due(k, max_retries) == k < max_retries - 1

----------------------------------------------------------------------------
(* app.py : POST /api/scan and its background thread run_scan                *)

\* the response of the handler, decided from the flag it read, the scanner
\* and the symbols of the request; "started" stands for going on to
\* threading.Thread(target=run_scan).start()
scan_response(in_progress, ready, has_symbols) ==
    IF in_progress THEN "Scan already in progress"
    ELSE IF ~ready THEN "Scanner not initialized"
    ELSE IF ~has_symbols THEN "No symbols to scan"
    ELSE "started"

\* the threads that are inside scanner_engine.scan
Scanning(threads) == { t \in DOMAIN threads : threads[t] = "scanning" }

\* finally: scan_in_progress = False
finally_flag(flag) == FALSE

----------------------------------------------------------------------------
(* The parts of the state a specification does not use stay as constructed   *)

IdleMatcher ==
    /\ c1 = NoCandle
    /\ c2 = NoCandle
    /\ doji_threshold = engine_doji_threshold
    /\ min_body_move_pct = default_min_body_move_pct
    /\ match = Pending
    /\ match_again = Pending

IdleSymbol ==
    /\ df = <<>>
    /\ timeframe = "1D"
    /\ min_days = default_min_days
    /\ scanned = Pending

IdleStore ==
    /\ backend = "postgres"
    /\ daily_ohlc = {}
    /\ ohlc_seq = 0
    /\ upsert_log = NoUpserts

IdleSDM ==
    /\ symbols = {}
    /\ today = 18633
    /\ cache_hit_rate = [db |-> 0, api |-> 0]
    /\ call = NoCall

IdleRetry ==
    /\ func = "get_historical_data"
    /\ plan = [k \in 1 .. retries |-> "ok"]
    /\ attempt = 1
    /\ slept = <<>>
    /\ pc = "idle"
    /\ result = "none"
    /\ calls_made = 0
    /\ payload = <<>>
    /\ returned = <<>>

Engines == {"ScannerEngine", "EnhancedScannerEngine"}

NoRequest == [symbols |-> <<>>]

IdleScan ==
    /\ engine = "ScannerEngine"
    /\ request = NoRequest
    /\ response = Pending

IdleLimit ==
    /\ clock = min_interval
    /\ last_called = 0
    /\ tpc = [t \in Threads |-> "idle"]
    /\ wake = [t \in Threads |-> 0]
    /\ started = [t \in Threads |-> NotStarted]

IdleComplete == checked = NoCheck

IdleBatch ==
    /\ batch_request = NoBatchRequest
    /\ bpc = "idle"
    /\ batch_i = 0
    /\ work_queue = <<>>
    /\ in_flight = {}
    /\ fetch_count = <<>>
    /\ batch_results = <<>>
    /\ failed_symbols = <<>>
    /\ retry_i = 1
    /\ batch_pauses = 0

IdleWorkers ==
    /\ txn = <<>>
    /\ store_before = {}

\* the symbol has not been scanned yet
NotDetected == [done |-> FALSE]

\* the patterns the scan of the symbol gave
Detected(patterns) == [done |-> TRUE, patterns |-> patterns]

IdleAdjacent ==
    /\ agg_engine = "SQLiteScannerEngine"
    /\ agg_tf = "1W"
    /\ agg_daily = <<>>
    /\ agg_patterns = NotDetected

IdleFetch ==
    /\ fwr_call = [has_id |-> FALSE, max_retries |-> 0, upstream |-> <<>>]
    /\ fwr_pc = "start"
    /\ fwr_attempt = 0
    /\ fwr_log = <<>>
    /\ fwr_result = NotReturned

IdleWeb ==
    /\ scan_in_progress = FALSE
    /\ scanner_ready = FALSE
    /\ web_requests = <<>>
    /\ web_threads = <<>>

----------------------------------------------------------------------------
(* Specification of the matcher: a first candle, a detector configuration   *)
(* and a filter are drawn, then the detector is run against a second candle *)

notMatcherVars == <<scanVars, retryVars, symbolVars, storeVars, sdmVars, limitVars, completeVars, batchVars, workersVars, adjacentVars, fetchVars, webVars>>

InitMatcher ==
    /\ IdleSymbol
    /\ IdleStore
    /\ IdleSDM
    /\ IdleRetry
    /\ IdleWeb
    /\ IdleFetch
    /\ IdleAdjacent
    /\ IdleWorkers
    /\ IdleBatch
    /\ IdleComplete
    /\ IdleLimit
    /\ IdleScan
    /\ c1 \in Candles
    /\ c2 = NoCandle
    /\ doji_threshold \in DojiThresholds
    /\ min_body_move_pct \in MinBodyMoves
    /\ match = Pending
    /\ match_again = Pending

DetectPair ==
    /\ match = Pending
    /\ \E b \in Candles :
        /\ c2' = b
        /\ match' = MatchPair(c1, b, doji_threshold, min_body_move_pct)
    /\ UNCHANGED <<c1, doji_threshold, min_body_move_pct, match_again>>
    /\ UNCHANGED notMatcherVars

\* the detector and the filter called once more on the same two candles
DetectAgain ==
    /\ match # Pending
    /\ match_again = Pending
    /\ match_again' = MatchPair(c1, c2, doji_threshold, min_body_move_pct)
    /\ UNCHANGED <<c1, c2, doji_threshold, min_body_move_pct, match>>
    /\ UNCHANGED notMatcherVars

NextMatcher == DetectPair \/ DetectAgain

SpecMatcher == InitMatcher /\ [][NextMatcher]_vars

----------------------------------------------------------------------------
(* Specification of scan_symbol: a daily frame is put together row by row,  *)
(* in any order of dates, then scanned on a timeframe                       *)

notSymbolVars == <<scanVars, retryVars, matcherVars, storeVars, sdmVars, limitVars, completeVars, batchVars, workersVars, adjacentVars, fetchVars, webVars>>

InitSymbol ==
    /\ IdleMatcher
    /\ IdleStore
    /\ IdleSDM
    /\ IdleRetry
    /\ IdleWeb
    /\ IdleFetch
    /\ IdleAdjacent
    /\ IdleWorkers
    /\ IdleBatch
    /\ IdleComplete
    /\ IdleLimit
    /\ IdleScan
    /\ df = <<>>
    /\ timeframe = "1D"
    /\ min_days = default_min_days
    /\ scanned = Pending

AppendRow ==
    /\ scanned = Pending
    /\ Len(df) < MaxBars
    /\ \E row \in SampleRows :
        /\ row.date \notin DatesOf(df)
        /\ df' = Append(df, row)
    /\ UNCHANGED <<timeframe, min_days, scanned>>
    /\ UNCHANGED notSymbolVars

ScanSymbol ==
    /\ scanned = Pending
    /\ Len(df) >= 1
    /\ \E tf \in Timeframes :
        /\ timeframe' = tf
        /\ scanned' = scan_symbol(df, tf, min_body_move_pct, min_days)
    /\ UNCHANGED <<df, min_days>>
    /\ UNCHANGED notSymbolVars

NextSymbol == AppendRow \/ ScanSymbol

SpecSymbol == InitSymbol /\ [][NextSymbol]_vars

----------------------------------------------------------------------------
(* Specification of scan_symbol over frames as the upstream can hand them    *)
(* back: bars that break low <= open, close <= high and zero-range bars       *)
(* included, and the aggregator configured with any min_days                  *)

\* a bar whose open and close lie below its low
MalformedBar == [open |-> 2, high |-> 5, low |-> 3, close |-> 2, volume |-> 2]

\* a bar with high = low
ZeroRangeBar == [open |-> 3, high |-> 3, low |-> 3, close |-> 3, volume |-> 4]

FeedBars == {DominantBar, IndecisionBar, MalformedBar, ZeroRangeBar}

\* Tue 2020-12-22 and Thu 2020-12-24 (one week, one month), Tue 2021-01-05
FeedDays == {SampleDay(0), SampleDay(1), SampleDay(3)}

FeedRows == { Row(d, b) : d \in FeedDays, b \in FeedBars }

InitFeed ==
    /\ IdleMatcher
    /\ IdleStore
    /\ IdleSDM
    /\ IdleRetry
    /\ IdleWeb
    /\ IdleFetch
    /\ IdleAdjacent
    /\ IdleWorkers
    /\ IdleBatch
    /\ IdleComplete
    /\ IdleLimit
    /\ IdleScan
    /\ df = <<>>
    /\ timeframe = "1D"
    /\ min_days \in 1 .. MaxBars
    /\ scanned = Pending

\* the next row of the frame handed to scan_symbol
FeedRow ==
    /\ scanned = Pending
    /\ Len(df) < MaxBars
    /\ \E row \in FeedRows :
        /\ row.date \notin DatesOf(df)
        /\ df' = Append(df, row)
    /\ UNCHANGED <<timeframe, min_days, scanned>>
    /\ UNCHANGED notSymbolVars

NextFeed == FeedRow \/ ScanSymbol

SpecFeed == InitFeed /\ [][NextFeed]_vars

----------------------------------------------------------------------------
(* Specification of scan_symbol over ten consecutive daily bars of which the *)
(* third is a dominant bar and the fourth an indecision bar                  *)

\* body 85 of range 100 (85%), body 85 of open 1700 (5%)
Day3Bar == [open |-> 1700, high |-> 1790, low |-> 1690, close |-> 1785, volume |-> 1]

\* body 10 of range 100 (10%), high above 1790, close inside (1700, 1785)
Day4Bar == [open |-> 1745, high |-> 1800, low |-> 1700, close |-> 1755, volume |-> 1]

\* bars of the other days: body 50 of range 100, and body 10 of range 100
OtherDayBars ==
    { [open |-> 1700, high |-> 1775, low |-> 1675, close |-> 1750, volume |-> 1],
      [open |-> 1720, high |-> 1780, low |-> 1680, close |-> 1730, volume |-> 1] }

\* the weekdays Mon 2020-12-28 .. Fri 2021-01-08, day 1 .. day 10
TenDay(k) == ScanToday - 11 + (k - 1) + (IF k > 5 THEN 2 ELSE 0)

OtherDays == (1 .. 10) \ {3, 4}

TenDayFrame(bars) ==
    << Row(TenDay(1), bars[1]), Row(TenDay(2), bars[2]),
       Row(TenDay(3), Day3Bar), Row(TenDay(4), Day4Bar),
       Row(TenDay(5), bars[5]), Row(TenDay(6), bars[6]),
       Row(TenDay(7), bars[7]), Row(TenDay(8), bars[8]),
       Row(TenDay(9), bars[9]), Row(TenDay(10), bars[10]) >>

InitDaily ==
    /\ c1 = NoCandle
    /\ c2 = NoCandle
    /\ doji_threshold = engine_doji_threshold
    /\ min_body_move_pct \in 0 .. MaxMove
    /\ match = Pending
    /\ match_again = Pending
    /\ IdleStore
    /\ IdleSDM
    /\ IdleRetry
    /\ IdleWeb
    /\ IdleFetch
    /\ IdleAdjacent
    /\ IdleWorkers
    /\ IdleBatch
    /\ IdleComplete
    /\ IdleLimit
    /\ IdleScan
    /\ df \in { TenDayFrame(bars) : bars \in [OtherDays -> OtherDayBars] }
    /\ timeframe = "1D"
    /\ min_days = default_min_days
    /\ scanned = Pending

NextDaily == ScanSymbol

SpecDaily == InitDaily /\ [][NextDaily]_vars

----------------------------------------------------------------------------
(* Specification of check_consecutive_periods over frames whose rows lie in  *)
(* ISO weeks 1, 5, 7, 52 of several years                                    *)

\* the rows of a set of dates in ascending date order, each with the same bar
RECURSIVE PeriodFrame(_)
PeriodFrame(days) ==
    IF days = {} THEN <<>>
    ELSE LET first == CHOOSE d \in days : \A e \in days : d <= e
         IN  <<Row(first, IndecisionBar)>> \o PeriodFrame(days \ {first})

PeriodFrames ==
    { PeriodFrame(days) :
        days \in { S \in SUBSET PeriodDays : Cardinality(S) \in 1 .. MaxPeriods } }

InitPeriods ==
    /\ IdleMatcher
    /\ IdleStore
    /\ IdleSDM
    /\ IdleRetry
    /\ IdleWeb
    /\ IdleFetch
    /\ IdleAdjacent
    /\ IdleWorkers
    /\ IdleBatch
    /\ IdleComplete
    /\ IdleLimit
    /\ IdleScan
    /\ df \in PeriodFrames
    /\ timeframe = "1D"
    /\ min_days = default_min_days
    /\ scanned = Pending

NextPeriods == ScanSymbol

SpecPeriods == InitPeriods /\ [][NextPeriods]_vars

----------------------------------------------------------------------------
(* Specification of the daily_ohlc table: on either backend, a bounded       *)
(* number of bulk_insert_daily_ohlc calls, each with a batch of records      *)

notStoreVars == <<scanVars, retryVars, matcherVars, symbolVars, sdmVars, limitVars, completeVars, batchVars, workersVars, adjacentVars, fetchVars, webVars>>

InitStore ==
    /\ IdleMatcher
    /\ IdleSymbol
    /\ IdleSDM
    /\ IdleRetry
    /\ IdleWeb
    /\ IdleFetch
    /\ IdleAdjacent
    /\ IdleWorkers
    /\ IdleBatch
    /\ IdleComplete
    /\ IdleLimit
    /\ IdleScan
    /\ backend \in Backends
    /\ daily_ohlc = {}
    /\ ohlc_seq = 0
    /\ upsert_log = NoUpserts

BulkInsert(data) ==
    /\ daily_ohlc' = bulk_insert_daily_ohlc(backend, daily_ohlc, ohlc_seq, data).table
    /\ ohlc_seq' = bulk_insert_daily_ohlc(backend, daily_ohlc, ohlc_seq, data).seq
    /\ upsert_log' = [latest |-> LatestAfter(upsert_log.latest, data),
                      repeat |-> \A i \in 1 .. Len(data) :
                                    data[i] \in StoredValues(daily_ohlc),
                      same |-> StoredValues(daily_ohlc') = StoredValues(daily_ohlc),
                      n |-> upsert_log.n + 1]
    /\ UNCHANGED backend
    /\ UNCHANGED notStoreVars

BulkInsertDailyOhlc ==
    /\ upsert_log.n < MaxUpserts
    /\ \E data \in Batches : BulkInsert(data)

NextStore == BulkInsertDailyOhlc

SpecStore == InitStore /\ [][NextStore]_vars

----------------------------------------------------------------------------
(* Specification of SmartDataManager over the Postgres store: the days go    *)
(* by, the end-of-day job stores what the adapter hands back, and            *)
(* get_historical_data is called for a span ending today                     *)

notSdmVars == <<matcherVars, symbolVars, retryVars, scanVars, backend, ohlc_seq, upsert_log, limitVars, completeVars, batchVars, workersVars, adjacentVars, fetchVars, webVars>>

InitSDM ==
    /\ IdleMatcher
    /\ IdleSymbol
    /\ backend = "postgres"
    /\ daily_ohlc = {}
    /\ ohlc_seq = 0
    /\ upsert_log = NoUpserts
    /\ IdleRetry
    /\ IdleWeb
    /\ IdleFetch
    /\ IdleAdjacent
    /\ IdleWorkers
    /\ IdleBatch
    /\ IdleComplete
    /\ IdleLimit
    /\ IdleScan
    /\ symbols \in {{}, {[symbol |-> "RELIANCE", symbol_id |-> 1]}}
    /\ today = 18633
    /\ cache_hit_rate = [db |-> 0, api |-> 0]
    /\ call = NoCall

\* datetime.now() moves on to the next day
Tick ==
    /\ today + 1 \in Todays
    /\ today' = today + 1
    /\ call' = NoCall
    /\ UNCHANGED <<symbols, daily_ohlc, cache_hit_rate>>
    /\ UNCHANGED notSdmVars

EodStored(stored) ==
    /\ symbols' = stored.symbols
    /\ daily_ohlc' = stored.daily_ohlc

\* DailyUpdateJob.run_eod_update: for every symbol of the symbols table the
\* frame of days_back = 1 is stored when it is not empty
RunEodUpdate ==
    /\ \E up \in Upstreams :
          IF SymbolRows(symbols, "RELIANCE") = {}
          THEN UNCHANGED <<symbols, daily_ohlc>>
          ELSE EodStored(store_to_database(symbols, daily_ohlc, "RELIANCE",
                                           UpstreamRows(up, today, 1)))
    /\ call' = NoCall
    /\ UNCHANGED <<today, cache_hit_rate>>
    /\ UNCHANGED notSdmVars

Called(q, db, r) ==
    /\ symbols' = r.symbols
    /\ daily_ohlc' = r.daily_ohlc
    /\ cache_hit_rate' = r.cache_hit_rate
    /\ call' = [q |-> q, before |-> db, events |-> r.events, outcome |-> r.outcome,
                missing |-> r.missing, df |-> r.df]

\* one call is looked at at a time: the record of the last call is cleared by
\* the other steps before the next call is made
GetHistoricalData ==
    /\ call = NoCall
    /\ cache_hit_rate.db < MaxHits
    /\ \E sym \in SdmSymbols, days_back \in 0 .. MaxDaysBack, tf \in Timeframes,
          up \in Upstreams :
          Called(Query(sym, days_back, tf, today, up),
                 Database(symbols, daily_ohlc, cache_hit_rate),
                 get_historical_data(Query(sym, days_back, tf, today, up),
                                     Database(symbols, daily_ohlc, cache_hit_rate)))
    /\ UNCHANGED today
    /\ UNCHANGED notSdmVars

NextSDM == Tick \/ RunEodUpdate \/ GetHistoricalData

SpecSDM == InitSDM /\ [][NextSDM]_vars

----------------------------------------------------------------------------
(* Specification of a decorated DhanClient call: the wrapper of              *)
(* retry_on_failure runs the body once per attempt                            *)

notRetryVars == <<matcherVars, symbolVars, storeVars, sdmVars, scanVars, limitVars, completeVars, batchVars, workersVars, adjacentVars, fetchVars, webVars>>

InitRetry ==
    /\ IdleMatcher
    /\ IdleSymbol
    /\ IdleStore
    /\ IdleSDM
    /\ IdleRetry
    /\ IdleWeb
    /\ IdleFetch
    /\ IdleAdjacent
    /\ IdleWorkers
    /\ IdleBatch
    /\ IdleComplete
    /\ IdleLimit
    /\ IdleScan

\* a decorated method is called; the upstream will behave as the plan says
BeginCall ==
    /\ pc = "idle"
    /\ calls_made < MaxCalls
    /\ \E f \in DecoratedMethods :
          /\ func' = f
          /\ plan' \in Plans(f)
    /\ payload' = <<>>
    /\ returned' = <<>>
    /\ attempt' = 1
    /\ slept' = <<>>
    /\ result' = "none"
    /\ pc' = "try"
    /\ calls_made' = calls_made + 1
    /\ UNCHANGED notRetryVars

\* try: return func(*args, **kwargs)
AttemptReturns ==
    /\ pc = "try"
    /\ ~func_call(func, plan[attempt]).raised
    /\ result' = func_call(func, plan[attempt]).value
    /\ \E rows \in IF func = "get_historical_data" /\ plan[attempt] = "ok"
                    THEN ResponseData ELSE {<<>>} :
          /\ payload' = rows
          /\ returned' = IF func = "get_historical_data"
                         THEN historical_frame(plan[attempt], rows) ELSE <<>>
    /\ pc' = "idle"
    /\ UNCHANGED <<func, plan, attempt, slept, calls_made>>
    /\ UNCHANGED notRetryVars

\* except Exception, attempt < retries: time.sleep(delay * attempt)
AttemptRetries ==
    /\ pc = "try"
    /\ func_call(func, plan[attempt]).raised
    /\ attempt < retries
    /\ slept' = Append(slept, backoff(attempt))
    /\ attempt' = attempt + 1
    /\ UNCHANGED <<func, plan, pc, result, calls_made, payload, returned>>
    /\ UNCHANGED notRetryVars

\* except Exception, last attempt: raise
AttemptGivesUp ==
    /\ pc = "try"
    /\ func_call(func, plan[attempt]).raised
    /\ ~(attempt < retries)
    /\ result' = "raised"
    /\ pc' = "idle"
    /\ UNCHANGED <<func, plan, attempt, slept, calls_made, payload, returned>>
    /\ UNCHANGED notRetryVars

NextRetry == BeginCall \/ AttemptReturns \/ AttemptRetries \/ AttemptGivesUp

SpecRetry == InitRetry /\ [][NextRetry]_vars

----------------------------------------------------------------------------
(* Specification of a scan: an engine is handed a symbol list while the      *)
(* symbols behave in some combination, and scans it                          *)

notScanVars ==
    <<matcherVars, symbolVars, retryVars, backend, ohlc_seq, upsert_log, today, call, limitVars, completeVars, batchVars, workersVars, adjacentVars, fetchVars, webVars>>

BehavioursOf(e) ==
    IF e = "ScannerEngine" THEN EngineBehaviours ELSE EnhancedBehaviours

Requests(e) ==
    { [symbols |-> list, timeframe |-> tf, history |-> h,
       min_body_move_pct |-> default_min_body_move_pct,
       behaviour |-> b, instruments_ok |-> ok] :
          list \in SymbolLists, tf \in Timeframes, h \in Histories,
          b \in [ScanUniverse -> BehavioursOf(e)], ok \in BOOLEAN }

InitScan ==
    /\ IdleMatcher
    /\ IdleSymbol
    /\ IdleRetry
    /\ IdleWeb
    /\ IdleFetch
    /\ IdleAdjacent
    /\ IdleWorkers
    /\ IdleBatch
    /\ IdleComplete
    /\ IdleLimit
    /\ backend = "postgres"
    /\ ohlc_seq = 0
    /\ upsert_log = NoUpserts
    /\ today = ScanToday
    /\ call = NoCall
    /\ cache_hit_rate = [db |-> 0, api |-> 0]
    /\ engine \in Engines
    /\ request \in Requests(engine)
    /\ symbols = IF engine = "ScannerEngine" THEN {} ELSE SymbolsBefore(request.behaviour)
    /\ daily_ohlc = IF engine = "ScannerEngine" THEN {} ELSE DailyBefore(request.behaviour)
    /\ response = Pending

\* ScannerEngine.scan(symbols, timeframe, history, min_body_move_pct)
Scan ==
    /\ engine = "ScannerEngine"
    /\ response = Pending
    /\ \E order \in BatchOrders(valid_symbols(request.symbols, request.behaviour),
                                request.behaviour) :
          response' = engine_scan(request, order)
    /\ UNCHANGED <<engine, request, symbols, daily_ohlc, cache_hit_rate>>
    /\ UNCHANGED notScanVars

EnhancedScanned(done) ==
    /\ symbols' = done.db.symbols
    /\ daily_ohlc' = done.db.daily_ohlc
    /\ cache_hit_rate' = done.db.cache_hit_rate
    /\ response' = done.response

\* EnhancedScannerEngine.scan(symbols, timeframe, history, min_body_move_pct)
EnhancedScan ==
    /\ engine = "EnhancedScannerEngine"
    /\ response = Pending
    /\ EnhancedScanned(enhanced_scan(request,
                                     Database(symbols, daily_ohlc, cache_hit_rate)))
    /\ UNCHANGED <<engine, request>>
    /\ UNCHANGED notScanVars

NextScan == Scan \/ EnhancedScan

SpecScan == InitScan /\ [][NextScan]_vars

----------------------------------------------------------------------------
(* Specification of the rate limiter: the worker threads of                  *)
(* get_batch_historical_data call the wrapped get_historical_data, one call  *)
(* each, while the clock goes on                                             *)

notLimitVars ==
    <<matcherVars, symbolVars, storeVars, sdmVars, retryVars, scanVars, completeVars, batchVars, workersVars, adjacentVars, fetchVars, webVars>>

InitLimit ==
    /\ IdleMatcher
    /\ IdleSymbol
    /\ IdleStore
    /\ IdleSDM
    /\ IdleRetry
    /\ IdleWeb
    /\ IdleFetch
    /\ IdleAdjacent
    /\ IdleWorkers
    /\ IdleBatch
    /\ IdleComplete
    /\ IdleScan
    /\ clock = min_interval
    /\ last_called = 0
    /\ tpc = [t \in Threads |-> "idle"]
    /\ wake = [t \in Threads |-> 0]
    /\ started = [t \in Threads |-> NotStarted]

\* time goes by
ClockTick ==
    /\ clock < MaxTicks
    /\ clock' = clock + 1
    /\ UNCHANGED <<last_called, tpc, wake, started>>
    /\ UNCHANGED notLimitVars

\* elapsed = time.time() - last_called[0]; wait = min_interval - elapsed
ReadLastCalled(t) ==
    /\ tpc[t] = "idle"
    /\ wake' = [wake EXCEPT ![t] = clock + limit_wait(clock, last_called)]
    /\ tpc' = [tpc EXCEPT ![t] = IF limit_wait(clock, last_called) > 0
                                 THEN "sleeping" ELSE "awake"]
    /\ UNCHANGED <<clock, last_called, started>>
    /\ UNCHANGED notLimitVars

\* time.sleep(wait) is over
WakeUp(t) ==
    /\ tpc[t] = "sleeping"
    /\ clock >= wake[t]
    /\ tpc' = [tpc EXCEPT ![t] = "awake"]
    /\ UNCHANGED <<clock, last_called, wake, started>>
    /\ UNCHANGED notLimitVars

\* last_called[0] = time.time(); return func(*args, **kwargs)
StampAndCall(t) ==
    /\ tpc[t] = "awake"
    /\ last_called' = clock
    /\ started' = [started EXCEPT ![t] = clock]
    /\ tpc' = [tpc EXCEPT ![t] = "called"]
    /\ UNCHANGED <<clock, wake>>
    /\ UNCHANGED notLimitVars

NextLimit ==
    \/ ClockTick
    \/ \E t \in Threads : ReadLastCalled(t)
    \/ \E t \in Threads : WakeUp(t)
    \/ \E t \in Threads : StampAndCall(t)

SpecLimit == InitLimit /\ [][NextLimit]_vars

----------------------------------------------------------------------------
(* Specification of _is_data_complete over frames of 0 .. MaxCount rows and  *)
(* spans of 0 .. MaxSpan days                                                *)

notCompleteVars == <<matcherVars, symbolVars, storeVars, sdmVars, retryVars, scanVars, limitVars, batchVars, workersVars, adjacentVars, fetchVars, webVars>>

InitComplete ==
    /\ IdleMatcher
    /\ IdleSymbol
    /\ IdleStore
    /\ IdleSDM
    /\ IdleRetry
    /\ IdleWeb
    /\ IdleFetch
    /\ IdleAdjacent
    /\ IdleWorkers
    /\ IdleBatch
    /\ IdleLimit
    /\ IdleScan
    /\ \E n \in 0 .. MaxCount, days \in 0 .. MaxSpan, end_date \in Todays :
          checked = [df |-> StoredFrame(n, end_date), start_date |-> end_date - days,
                     end_date |-> end_date, done |-> FALSE, result |-> FALSE]

IsDataComplete ==
    /\ ~checked.done
    /\ checked' = CheckedCall(checked.df, checked.start_date, checked.end_date)
    /\ UNCHANGED notCompleteVars

NextComplete == IsDataComplete

SpecComplete == InitComplete /\ [][NextComplete]_vars

----------------------------------------------------------------------------
(* Specification of get_batch_historical_data: the main thread submits the   *)
(* batches, the workers of the pool take and finish the fetches in any       *)
(* order, the failed symbols are fetched again one by one                    *)

notBatchVars == <<matcherVars, symbolVars, storeVars, sdmVars, retryVars, scanVars, limitVars, completeVars, workersVars, adjacentVars, fetchVars, webVars>>

\* the numbers of symbols asked for
SymbolCounts == {0, 1, batch_size, MaxBatchSymbols}

\* the symbols that may behave otherwise than "data": the first, the second
\* and the last one
Deviating(n) == {1, 2, n} \cap (1 .. n)

BatchRequests ==
    UNION { { [count |-> n,
               kind |-> [s \in 1 .. n |-> IF s \in dev THEN k ELSE "data"],
               instruments |-> "ok"] : dev \in SUBSET Deviating(n), k \in FetchKinds }
            \cup { [count |-> n, kind |-> [s \in 1 .. n |-> "data"],
                    instruments |-> "raise"] } : n \in SymbolCounts }

InitBatch ==
    /\ IdleMatcher
    /\ IdleSymbol
    /\ IdleStore
    /\ IdleSDM
    /\ IdleRetry
    /\ IdleWeb
    /\ IdleFetch
    /\ IdleAdjacent
    /\ IdleWorkers
    /\ IdleLimit
    /\ IdleScan
    /\ IdleComplete
    /\ batch_request \in BatchRequests
    /\ bpc = "idle"
    /\ batch_i = 0
    /\ work_queue = <<>>
    /\ in_flight = {}
    /\ fetch_count = [s \in 1 .. batch_request.count |-> 0]
    /\ batch_results = [s \in 1 .. batch_request.count |-> "none"]
    /\ failed_symbols = <<>>
    /\ retry_i = 1
    /\ batch_pauses = 0

\* lines 177-184: the mapping is loaded (or the call is left by its
\* exception), valid and total_batches are computed
BeginBatchCall ==
    /\ bpc = "idle"
    /\ bpc' = IF batch_request.instruments = "raise" THEN "raised"
              ELSE IF total_batches(batch_request) = 0 THEN "retry"
              ELSE "submit"
    /\ UNCHANGED <<batch_request, batch_i, work_queue, in_flight, fetch_count,
                   batch_results, failed_symbols, retry_i, batch_pauses>>
    /\ UNCHANGED notBatchVars

\* future_map = {executor.submit(...) for sym, sec_id in batch}
SubmitBatch ==
    /\ bpc = "submit"
    /\ work_queue' = batch_of(batch_request, batch_i)
    /\ bpc' = "fetching"
    /\ UNCHANGED <<batch_request, batch_i, in_flight, fetch_count, batch_results,
                   failed_symbols, retry_i, batch_pauses>>
    /\ UNCHANGED notBatchVars

\* a free worker of ThreadPoolExecutor(max_workers = 3) takes the oldest
\* submitted fetch
StartFetch ==
    /\ bpc = "fetching"
    /\ work_queue # <<>>
    /\ Cardinality(in_flight) < max_workers
    /\ in_flight' = in_flight \cup {Head(work_queue)}
    /\ work_queue' = Tail(work_queue)
    /\ fetch_count' = [fetch_count EXCEPT ![Head(work_queue)] = @ + 1]
    /\ UNCHANGED <<batch_request, bpc, batch_i, batch_results, failed_symbols,
                   retry_i, batch_pauses>>
    /\ UNCHANGED notBatchVars

\* a running fetch ends and as_completed hands it to the main thread
FetchCompletes(sym) ==
    /\ bpc = "fetching"
    /\ sym \in in_flight
    /\ in_flight' = in_flight \ {sym}
    /\ IF fetch_outcome(batch_request.kind[sym], 1) = "data"
       THEN /\ batch_results' = [batch_results EXCEPT ![sym] = "first"]
            /\ UNCHANGED failed_symbols
       ELSE /\ failed_symbols' = Append(failed_symbols, sym)
            /\ UNCHANGED batch_results
    /\ UNCHANGED <<batch_request, bpc, batch_i, work_queue, fetch_count, retry_i,
                   batch_pauses>>
    /\ UNCHANGED notBatchVars

\* as_completed is exhausted: the pause, then the next batch, or the end of
\* the with block
BatchDone ==
    /\ bpc = "fetching"
    /\ work_queue = <<>>
    /\ in_flight = {}
    /\ IF pause_due(batch_i, total_batches(batch_request))
       THEN batch_pauses' = batch_pauses + 1
       ELSE UNCHANGED batch_pauses
    /\ IF batch_i + 1 < total_batches(batch_request)
       THEN /\ batch_i' = batch_i + 1
            /\ bpc' = "submit"
       ELSE /\ bpc' = "retry"
            /\ UNCHANGED batch_i
    /\ UNCHANGED <<batch_request, work_queue, in_flight, fetch_count, batch_results,
                   failed_symbols, retry_i>>
    /\ UNCHANGED notBatchVars

\* time.sleep(1); df = self.get_historical_data(...) for the next failed symbol
RetryStart ==
    /\ bpc = "retry"
    /\ in_flight = {}
    /\ retry_i <= Len(failed_symbols)
    /\ in_flight' = {failed_symbols[retry_i]}
    /\ fetch_count' = [fetch_count EXCEPT ![failed_symbols[retry_i]] = @ + 1]
    /\ UNCHANGED <<batch_request, bpc, batch_i, work_queue, batch_results,
                   failed_symbols, retry_i, batch_pauses>>
    /\ UNCHANGED notBatchVars

\* the retried fetch ends: its frame is kept when it is not empty
RetryFinish ==
    /\ bpc = "retry"
    /\ in_flight # {}
    /\ in_flight' = {}
    /\ retry_i' = retry_i + 1
    /\ batch_results' =
          IF fetch_outcome(batch_request.kind[failed_symbols[retry_i]], 2) = "data"
          THEN [batch_results EXCEPT ![failed_symbols[retry_i]] = "retry"]
          ELSE batch_results
    /\ UNCHANGED <<batch_request, bpc, batch_i, work_queue, fetch_count,
                   failed_symbols, batch_pauses>>
    /\ UNCHANGED notBatchVars

\* return results
ReturnBatch ==
    /\ bpc = "retry"
    /\ in_flight = {}
    /\ retry_i > Len(failed_symbols)
    /\ bpc' = "done"
    /\ UNCHANGED <<batch_request, batch_i, work_queue, in_flight, fetch_count,
                   batch_results, failed_symbols, retry_i, batch_pauses>>
    /\ UNCHANGED notBatchVars

NextBatch ==
    \/ BeginBatchCall
    \/ SubmitBatch
    \/ StartFetch
    \/ \E sym \in in_flight : FetchCompletes(sym)
    \/ BatchDone
    \/ RetryStart
    \/ RetryFinish
    \/ ReturnBatch

SpecBatch == InitBatch /\ [][NextBatch]_vars

----------------------------------------------------------------------------
(* Specification of concurrent upserts: each worker calls                    *)
(* bulk_insert_daily_ohlc once with records of its own symbol                *)

notWorkersVars == <<matcherVars, symbolVars, sdmVars, retryVars, scanVars, limitVars, completeVars, batchVars, backend, ohlc_seq, upsert_log, adjacentVars, fetchVars, webVars>>

\* the workers, one symbol_id each
Workers == StoreSymbolIds

\* the data of the call of worker w: records of symbol_id w only
WorkerBatches(w) ==
    { data \in Batches : \A i \in 1 .. Len(data) : data[i].symbol_id = w }

\* the bar of the rows stored before the calls
StoredBar == [open |-> 2, high |-> 5, low |-> 0, close |-> 2, volume |-> 3]

\* the table before the calls: empty, or one row per symbol on the first date
StoresBefore ==
    { {}, { OhlcRecord(s, 18633, StoredBar) : s \in StoreSymbolIds } }

InitWorkers ==
    /\ IdleMatcher
    /\ IdleSymbol
    /\ IdleSDM
    /\ IdleRetry
    /\ IdleWeb
    /\ IdleFetch
    /\ IdleAdjacent
    /\ IdleLimit
    /\ IdleScan
    /\ IdleComplete
    /\ IdleBatch
    /\ backend = "postgres"
    /\ ohlc_seq = 0
    /\ upsert_log = NoUpserts
    /\ symbols = {}
    /\ today = 18633
    /\ cache_hit_rate = [db |-> 0, api |-> 0]
    /\ call = NoCall
    /\ daily_ohlc \in StoresBefore
    /\ store_before = daily_ohlc
    /\ \E d1 \in WorkerBatches(1), d2 \in WorkerBatches(2) :
          txn = << [at |-> "start", data |-> d1, executed |-> 0, written |-> {}],
                   [at |-> "start", data |-> d2, executed |-> 0, written |-> {}] >>

\* get_connection: conn = psycopg2.connect(...)
Connect(w) ==
    /\ txn[w].at = "start"
    /\ txn' = [txn EXCEPT ![w].at = "open"]
    /\ UNCHANGED <<daily_ohlc, store_before>>
    /\ UNCHANGED notWorkersVars

\* execute_batch: the next INSERT ... ON CONFLICT statement; it waits while
\* another open transaction holds a row of the same key
ExecuteStatement(w) ==
    /\ txn[w].at = "open"
    /\ txn[w].executed < Len(txn[w].data)
    /\ \A v \in Workers \ {w} :
          txn[v].at = "open" =>
              \A q \in txn[v].written :
                  KeyOf(q) # KeyOf(txn[w].data[txn[w].executed + 1])
    /\ txn' = [txn EXCEPT ![w].written =
                              txn_write(daily_ohlc, txn[w].written,
                                        txn[w].data[txn[w].executed + 1]),
                          ![w].executed = @ + 1]
    /\ UNCHANGED <<daily_ohlc, store_before>>
    /\ UNCHANGED notWorkersVars

\* conn.commit() at the end of the with block, then conn.close()
Commit(w) ==
    /\ txn[w].at = "open"
    /\ txn[w].executed = Len(txn[w].data)
    /\ daily_ohlc' = commit_rows(daily_ohlc, txn[w].written)
    /\ txn' = [txn EXCEPT ![w].at = "done"]
    /\ UNCHANGED store_before
    /\ UNCHANGED notWorkersVars

NextWorkers ==
    \E w \in Workers : Connect(w) \/ ExecuteStatement(w) \/ Commit(w)

SpecWorkers == InitWorkers /\ [][NextWorkers]_vars

----------------------------------------------------------------------------
(* Specification of a weekly or monthly scan of one symbol by the enhanced   *)
(* and the sqlite engine, over daily rows lying in ISO weeks 1, 5, 7, 52     *)

notAdjacentVars ==
    <<matcherVars, symbolVars, storeVars, sdmVars, retryVars, scanVars, limitVars, completeVars, batchVars, workersVars, fetchVars, webVars>>

\* the daily frames: up to MaxDailyRows rows on period dates of two years,
\* each a dominant or an indecision bar
RECURSIVE DailyFramesOn(_)
DailyFramesOn(days) ==
    IF days = {} THEN {<<>>}
    ELSE LET first == CHOOSE d \in days : \A e \in days : d <= e
         IN  { <<Row(first, bar)>> \o rest :
                 bar \in {DominantBar, IndecisionBar},
                 rest \in DailyFramesOn(days \ {first}) }

\* the period dates of 2020 and 2021
DailyDays == { d \in PeriodDays : isocalendar(d).year \in {2020, 2021} }

DailyFrames ==
    UNION { DailyFramesOn(days) :
              days \in { S \in SUBSET DailyDays : Cardinality(S) \in 1 .. MaxDailyRows } }

InitAdjacent ==
    /\ IdleMatcher
    /\ IdleSymbol
    /\ IdleStore
    /\ IdleSDM
    /\ IdleRetry
    /\ IdleWeb
    /\ IdleFetch
    /\ IdleLimit
    /\ IdleScan
    /\ IdleComplete
    /\ IdleBatch
    /\ IdleWorkers
    /\ agg_engine \in {"EnhancedScannerEngine", "SQLiteScannerEngine"}
    /\ agg_tf \in {"1W", "1M"}
    /\ agg_daily \in DailyFrames
    /\ agg_patterns = NotDetected

\* SQLiteScannerEngine.scan, one symbol: aggregate, then detect
SqliteScanSymbol ==
    /\ agg_engine = "SQLiteScannerEngine"
    /\ agg_patterns = NotDetected
    /\ agg_patterns' = Detected(sqlite_scan_symbol(agg_daily, agg_tf, default_min_body_move_pct))
    /\ UNCHANGED <<agg_engine, agg_tf, agg_daily>>
    /\ UNCHANGED notAdjacentVars

\* EnhancedScannerEngine.scan, one symbol: the frame get_historical_data
\* returns from the stored rows (step 4), then detect
EnhancedScanSymbol ==
    /\ agg_engine = "EnhancedScannerEngine"
    /\ agg_patterns = NotDetected
    /\ agg_patterns' = Detected(enhanced_scan_symbol(step4(stored_rows(agg_daily), agg_tf),
                                                     default_min_body_move_pct))
    /\ UNCHANGED <<agg_engine, agg_tf, agg_daily>>
    /\ UNCHANGED notAdjacentVars

NextAdjacent == SqliteScanSymbol \/ EnhancedScanSymbol

SpecAdjacent == InitAdjacent /\ [][NextAdjacent]_vars

----------------------------------------------------------------------------
(* Specification of one _fetch_with_retries call: the symbol with or without *)
(* a security id, max_retries from 0 to MaxFetchRetries, every upstream      *)
(* call returning a frame, returning an empty frame, or raising              *)

notFetchVars ==
    <<matcherVars, symbolVars, storeVars, sdmVars, retryVars, scanVars, limitVars, completeVars, batchVars, workersVars, adjacentVars, webVars>>

UpstreamOutcomes == {"data", "empty", "raise"}

\* the calls: one upstream outcome for each attempt the call can make
FetchCalls ==
    UNION { { [has_id |-> h, max_retries |-> n, upstream |-> u] :
                h \in BOOLEAN, u \in [1 .. n -> UpstreamOutcomes] } :
            n \in 0 .. MaxFetchRetries }

InitFetch ==
    /\ IdleMatcher
    /\ IdleSymbol
    /\ IdleStore
    /\ IdleSDM
    /\ IdleRetry
    /\ IdleWeb
    /\ IdleLimit
    /\ IdleScan
    /\ IdleComplete
    /\ IdleBatch
    /\ IdleWorkers
    /\ IdleAdjacent
    /\ fwr_call \in FetchCalls
    /\ fwr_pc = "start"
    /\ fwr_attempt = 0
    /\ fwr_log = <<>>
    /\ fwr_result = NotReturned

\* security_id = self.symbol_mapping.get(symbol); if not security_id: return None
LookUpSecurityId ==
    /\ fwr_pc = "start"
    /\ IF fwr_call.has_id
       THEN fwr_pc' = "loop" /\ fwr_result' = fwr_result
       ELSE fwr_pc' = "done" /\ fwr_result' = NoneReturned
    /\ UNCHANGED <<fwr_call, fwr_attempt, fwr_log>>
    /\ UNCHANGED notFetchVars

\* one pass of the try block: df = self.dhan.get_historical_data(...)
AttemptFetch ==
    /\ fwr_pc = "loop"
    /\ fwr_attempt < fwr_call.max_retries
    /\ fwr_log' = Append(fwr_log, "call")
    /\ IF try_block(fwr_call.upstream[fwr_attempt + 1]) = "return"
       THEN fwr_pc' = "done" /\ fwr_result' = FrameReturned(fwr_attempt + 1)
       ELSE fwr_pc' = "after" /\ fwr_result' = fwr_result
    /\ UNCHANGED <<fwr_call, fwr_attempt>>
    /\ UNCHANGED notFetchVars

\* the rest of the loop body: the 2-second sleep unless this was the last
\* attempt, then the next value of attempt
BackOff ==
    /\ fwr_pc = "after"
    /\ fwr_log' = IF backoff_due(fwr_attempt, fwr_call.max_retries)
                  THEN Append(fwr_log, "sleep") ELSE fwr_log
    /\ fwr_attempt' = fwr_attempt + 1
    /\ fwr_pc' = "loop"
    /\ UNCHANGED <<fwr_call, fwr_result>>
    /\ UNCHANGED notFetchVars

\* the loop is over: return None
GiveUp ==
    /\ fwr_pc = "loop"
    /\ fwr_attempt >= fwr_call.max_retries
    /\ fwr_pc' = "done"
    /\ fwr_result' = NoneReturned
    /\ UNCHANGED <<fwr_call, fwr_attempt, fwr_log>>
    /\ UNCHANGED notFetchVars

NextFetch == LookUpSecurityId \/ AttemptFetch \/ BackOff \/ GiveUp

\* the call runs to its end once started: no statement of it waits for
\* anything but the sleep, which ends
SpecFetch == InitFetch /\ [][NextFetch]_vars /\ WF_vars(NextFetch)

----------------------------------------------------------------------------
(* Specification of the web layer: MaxRequests POST /api/scan requests,      *)
(* handled concurrently, each scan returning or raising                      *)

notWebVars ==
    <<matcherVars, symbolVars, storeVars, sdmVars, retryVars, scanVars, limitVars, completeVars, batchVars, workersVars, adjacentVars, fetchVars>>

WebRequests == 1 .. MaxRequests

InitWeb ==
    /\ IdleMatcher
    /\ IdleSymbol
    /\ IdleStore
    /\ IdleSDM
    /\ IdleRetry
    /\ IdleLimit
    /\ IdleScan
    /\ IdleComplete
    /\ IdleBatch
    /\ IdleWorkers
    /\ IdleAdjacent
    /\ IdleFetch
    /\ scan_in_progress = FALSE
    /\ scanner_ready \in BOOLEAN
    /\ \E has \in [WebRequests -> BOOLEAN] :
          web_requests = [r \in WebRequests |->
              [at |-> "arrived", has_symbols |-> has[r], scan_running |-> FALSE]]
    /\ web_threads = [r \in WebRequests |-> "none"]

\* scan(): the test of the flag, of the scanner and of the symbols; the
\* request either gets its error response or goes on to start the thread
HandleRequest(r) ==
    /\ web_requests[r].at = "arrived"
    /\ web_requests' =
          [web_requests EXCEPT
              ![r].at = scan_response(scan_in_progress, scanner_ready,
                                      web_requests[r].has_symbols),
              ![r].scan_running = Scanning(web_threads) # {}]
    /\ UNCHANGED <<scan_in_progress, scanner_ready, web_threads>>
    /\ UNCHANGED notWebVars

\* thread = threading.Thread(target=run_scan); thread.start(); return
StartThread(r) ==
    /\ web_requests[r].at = "started"
    /\ web_threads[r] = "none"
    /\ web_threads' = [web_threads EXCEPT ![r] = "ready"]
    /\ UNCHANGED <<scan_in_progress, scanner_ready, web_requests>>
    /\ UNCHANGED notWebVars

\* run_scan: scan_in_progress = True, then into scanner_engine.scan
RunScanBegins(r) ==
    /\ web_threads[r] = "ready"
    /\ scan_in_progress' = TRUE
    /\ web_threads' = [web_threads EXCEPT ![r] = "scanning"]
    /\ UNCHANGED <<scanner_ready, web_requests>>
    /\ UNCHANGED notWebVars

\* scanner_engine.scan returns (results cached) or raises (except Exception)
ScanEnds(r) ==
    /\ web_threads[r] = "scanning"
    /\ \E how \in {"returned", "raised"} :
          web_threads' = [web_threads EXCEPT ![r] = how]
    /\ UNCHANGED <<scan_in_progress, scanner_ready, web_requests>>
    /\ UNCHANGED notWebVars

\* finally: scan_in_progress = False
Finally(r) ==
    /\ web_threads[r] \in {"returned", "raised"}
    /\ scan_in_progress' = finally_flag(scan_in_progress)
    /\ web_threads' = [web_threads EXCEPT ![r] = "done"]
    /\ UNCHANGED <<scanner_ready, web_requests>>
    /\ UNCHANGED notWebVars

NextWeb ==
    \E r \in WebRequests :
        \/ HandleRequest(r)
        \/ StartThread(r)
        \/ RunScanBegins(r)
        \/ ScanEnds(r)
        \/ Finally(r)

SpecWeb == InitWeb /\ [][NextWeb]_vars

----------------------------------------------------------------------------
(* Calendar facts the claims are stated against *)

\* Monday of the ISO week of a day
WeekStart(n) == n - weekday(n)

\* number of ISO weeks of an ISO year: the week number of its 28 December
WeeksInIsoYear(y) == IsoFromDays(DaysFromCivil(y, 12, 28)).week

\* the period of the second day immediately follows the period of the first
CalendarSuccessor(d1, d2, tf) ==
    IF tf = "1W" THEN WeekStart(d2) = WeekStart(d1) + 7
    ELSE LET a == CivilFromDays(d1)
             b == CivilFromDays(d2)
         IN  b.y * 12 + b.m = a.y * 12 + a.m + 1

----------------------------------------------------------------------------
(* C1: in a weekly or monthly scan_symbol every reported match is on an      *)
(* index pair (i, i+1) returned by check_consecutive_periods over the         *)
(* aggregated bars, and pairs two bars whose period keys are immediate        *)
(* calendar successors.                                                       *)

C1_MatchesAreAdjacent ==
    (scanned # Pending /\ timeframe \in {"1W", "1M"}) =>
        \A n \in 1 .. Len(scanned.results) :
            LET r == scanned.results[n]
            IN  /\ r.idx2 = r.idx1 + 1
                /\ \E p \in 1 .. Len(scanned.pairs) : scanned.pairs[p] = r.idx1
                /\ r.marubozu.date = scanned.df_agg[r.idx1].date
                /\ r.doji.date = scanned.df_agg[r.idx2].date
                /\ CalendarSuccessor(r.marubozu.date, r.doji.date, timeframe)

----------------------------------------------------------------------------
(* C2: on weekly bars check_consecutive_periods returns (i, i+1) exactly     *)
(* when bar i+1 is in the same ISO year with week+1, or bar i is in the       *)
(* final ISO week of its ISO year (53 when that year has 53 weeks, else 52)   *)
(* and bar i+1 is in week 1 of the following ISO year.                        *)

C2_Successor(d1, d2) ==
    LET a == IsoFromDays(d1)
        b == IsoFromDays(d2)
    IN  \/ a.year = b.year /\ b.week = a.week + 1
        \/ /\ b.year = a.year + 1
           /\ a.week = WeeksInIsoYear(a.year)
           /\ b.week = 1

C2_WeeklyPairsIff ==
    (scanned # Pending /\ timeframe = "1W") =>
        \A i \in 1 .. Len(scanned.df_agg) - 1 :
            (\E p \in 1 .. Len(scanned.pairs) : scanned.pairs[p] = i)
                <=> C2_Successor(scanned.df_agg[i].date, scanned.df_agg[i + 1].date)

----------------------------------------------------------------------------
(* C4: weekly and monthly aggregation emit, for each partition of the daily  *)
(* rows by period key, one bar with open = open of the earliest-dated         *)
(* member, close = close of the latest-dated member, high = maximum high,     *)
(* low = minimum low, volume = sum of volumes, days = number of members and   *)
(* date = the latest member's date, whatever the order of the input rows.     *)
(* (A partition below min_days, or whose bar fails the OHLC check, emits no   *)
(* bar.)                                                                      *)

RECURSIVE C4_SetSum(_, _)
C4_SetSum(members, frame) ==
    IF members = {} THEN 0
    ELSE LET i == CHOOSE j \in members : TRUE
         IN  frame[i].volume + C4_SetSum(members \ {i}, frame)

C4_Members(frame, tf, k) ==
    { i \in 1 .. Len(frame) :
        (IF tf = "1W" THEN <<IsoFromDays(frame[i].date).year,
                             IsoFromDays(frame[i].date).week>>
                      ELSE <<CivilFromDays(frame[i].date).y,
                             CivilFromDays(frame[i].date).m>>) = k }

C4_Keys(frame, tf) ==
    { (IF tf = "1W" THEN <<IsoFromDays(frame[i].date).year,
                           IsoFromDays(frame[i].date).week>>
                    ELSE <<CivilFromDays(frame[i].date).y,
                           CivilFromDays(frame[i].date).m>>) : i \in 1 .. Len(frame) }

C4_Expected(frame, members) ==
    LET first == CHOOSE i \in members : \A j \in members : frame[i].date <= frame[j].date
        last == CHOOSE i \in members : \A j \in members : frame[i].date >= frame[j].date
        hi == CHOOSE i \in members : \A j \in members : frame[i].high >= frame[j].high
        lo == CHOOSE i \in members : \A j \in members : frame[i].low <= frame[j].low
    IN  [date |-> frame[last].date,
         open |-> frame[first].open,
         high |-> frame[hi].high,
         low |-> frame[lo].low,
         close |-> frame[last].close,
         volume |-> C4_SetSum(members, frame),
         days |-> Cardinality(members)]

C4_AggregationCorrect ==
    (scanned # Pending /\ timeframe \in {"1W", "1M"}) =>
        /\ \A k \in C4_Keys(df, timeframe) :
            LET members == C4_Members(df, timeframe, k)
                want == C4_Expected(df, members)
                got == { n \in 1 .. Len(scanned.df_agg) :
                           scanned.df_agg[n].date \in
                               { df[i].date : i \in members } }
            IN  IF Cardinality(members) >= min_days /\ validate_ohlc(want)
                THEN /\ Cardinality(got) = 1
                     /\ \A n \in got : scanned.df_agg[n] = want
                ELSE got = {}
        /\ \A n \in 1 .. Len(scanned.df_agg) :
               scanned.df_agg[n].date \in DatesOf(df)

\* a week or month of two members given latest first has been aggregated
C4_Witness ==
    /\ scanned # Pending
    /\ timeframe \in {"1W", "1M"}
    /\ Len(scanned.df_agg) >= 1
    /\ \E i, j \in 1 .. Len(df) :
        /\ i < j
        /\ df[i].date > df[j].date
        /\ df[i].open # df[j].open
        /\ \E k \in C4_Keys(df, timeframe) :
             {i, j} \subseteq C4_Members(df, timeframe, k)

----------------------------------------------------------------------------
(* C3: the detector followed by the body-move filter reports a match         *)
(* exactly when the first bar is dominant (range > 0, body_pct >= 80) and     *)
(* passes the body-move filter, the second bar is an indecision bar           *)
(* (range > 0, body_pct strictly below the doji threshold), and either the    *)
(* first bar is bullish, the second high breaks the first high and the        *)
(* second close lies strictly inside the first body (reported bullish), or    *)
(* the mirrored bearish condition holds (reported bearish).                   *)

C3_Expected(a, b, thr, minMove) ==
    LET common ==
            /\ a.high - a.low > 0
            /\ Abs(a.close - a.open) * 100 >= 80 * (a.high - a.low)
            /\ (IF a.open > 0 THEN Abs(a.close - a.open) * 100 >= minMove * a.open
                              ELSE 0 >= minMove)
            /\ b.high - b.low > 0
            /\ Abs(b.close - b.open) * 100 < thr * (b.high - b.low)
        bull == /\ a.close > a.open /\ b.high > a.high
                /\ a.open < b.close /\ b.close < a.close
        bear == /\ a.close < a.open /\ b.low < a.low
                /\ a.close < b.close /\ b.close < a.open
    IN  IF common /\ bull THEN "bullish"
        ELSE IF common /\ bear THEN "bearish"
        ELSE "none"

----------------------------------------------------------------------------
(* C5: upserting daily bars is idempotent on (symbol_id, trade_date).  On     *)
(* both backends, in every reachable table: (a) applying                      *)
(* bulk_insert_daily_ohlc with one record twice leaves the same rows, by key  *)
(* and OHLCV values and by the derived columns, as applying it once, and a    *)
(* call whose records are all stored already changes no stored value;         *)
(* (b) the table holds at most one row per (symbol_id, trade_date); (c) the   *)
(* OHLCV values of each row are those of the most recent upsert under its     *)
(* key.  (SQLite's INSERT OR REPLACE re-creates the row under a new ohlc_id:  *)
(* the surrogate id is not among the compared columns.)                       *)

C5_Once(record) == bulk_insert_daily_ohlc(backend, daily_ohlc, ohlc_seq, <<record>>)

C5_Twice(record) ==
    bulk_insert_daily_ohlc(backend, C5_Once(record).table, C5_Once(record).seq, <<record>>)

C5_Data(table) == { [r EXCEPT !.ohlc_id = 0] : r \in table }

C5_SameRows(t1, t2) ==
    /\ Cardinality(t1) = Cardinality(t2)
    /\ StoredValues(t1) = StoredValues(t2)
    /\ backend = "sqlite" => C5_Data(t1) = C5_Data(t2)

----------------------------------------------------------------------------
(* Facts about the last get_historical_data call the claims are stated on     *)

CallMade == call.outcome # "none"

\* the daily bars the store held for the span when the call was made
CallLocal ==
    get_daily_from_db(call.before.symbols, call.before.daily_ohlc, call.q.symbol,
                      call.q.now - call.q.days_back, call.q.now)

\* the gap the call computes from that read
CallGap == identify_missing_dates(CallLocal, call.q.now - call.q.days_back, call.q.now)

\* the bars the adapter hands back for that gap
CallFetched == fetch_missing_from_api(call.q.upstream, call.q.now, CallGap)

IsSubSeq(small, big) ==
    \E lo \in 1 .. Len(big) + 1 :
        /\ lo + Len(small) - 1 <= Len(big)
        /\ \A i \in 1 .. Len(small) : big[lo + i - 1] = small[i]

----------------------------------------------------------------------------
(* C6: whenever the store already holds a sufficient set of daily bars for    *)
(* the span (the read is not None and _is_data_complete accepts it), a        *)
(* get_historical_data call of any granularity 1D, 1W, 1M makes no call to    *)
(* the upstream adapter and writes nothing to the store.                      *)

C6_Sufficient ==
    /\ ~CallLocal.none
    /\ is_data_complete(CallLocal.rows, call.q.now - call.q.days_back, call.q.now)

C6_NoFetchWhenSufficient ==
    (CallMade /\ C6_Sufficient) =>
        /\ \A i \in 1 .. Len(call.events) :
              call.events[i] \notin {"load_instruments", "fetch", "upsert"}
        /\ daily_ohlc = call.before.daily_ohlc

----------------------------------------------------------------------------
(* C7: when get_historical_data finds missing dates and the adapter hands     *)
(* back a non-empty frame, the call fetches, upserts, re-reads the store and  *)
(* returns, in that order; the fetched bars are then in the store and in the  *)
(* frame returned.                                                            *)

C7_Stored(symbol_id, row) ==
    OhlcRecord(symbol_id, row.timestamp, row) \in StoredValues(daily_ohlc)

C7_BackfillThenReread ==
    (CallMade /\ CallGap # <<>> /\ CallFetched # <<>>) =>
        /\ call.outcome = "return"
        /\ IsSubSeq(<<"fetch", "upsert", "read", "return">>, call.events)
        /\ SymbolRows(symbols, call.q.symbol) # {}
        /\ \A i \in 1 .. Len(CallFetched) :
              C7_Stored(SymbolIdOf(symbols, call.q.symbol), CallFetched[i])
        /\ call.q.timeframe = "1D" =>
              \A i \in 1 .. Len(CallFetched) :
                  (CallFetched[i].timestamp >= call.q.now - call.q.days_back) =>
                      \E j \in 1 .. Len(call.df) : call.df[j] = CallFetched[i]

----------------------------------------------------------------------------
(* C8: when get_historical_data finds missing dates and the upstream fetch    *)
(* fails or hands back no bars, the call does not raise, leaves the store as  *)
(* it was and returns the bars locally available for the span, aggregated     *)
(* when weekly or monthly was asked.                                          *)

C8_FetchFailureDegrades ==
    (CallMade /\ CallGap # <<>> /\ CallFetched = <<>>) =>
        /\ call.outcome = "return"
        /\ daily_ohlc = call.before.daily_ohlc
        /\ call.df = step4(CallLocal.rows, call.q.timeframe)

----------------------------------------------------------------------------
(* C9 *)

\* the symbols of the request whose processing fails: not resolved, not
\* fetched, fetched empty, or raising in aggregation or matching
FailingSymbols ==
    { sym \in SymbolsOf(request.symbols) :
          IF engine = "ScannerEngine"
          THEN request.behaviour[sym] \in {"unmapped", "raises", "empty", "broken"}
          ELSE request.behaviour[sym] \in
                   {"unknown", "gap_load_raises", "gap_empty", "gap_frame"} }

MatchesOf(resp, sym) ==
    LET OfSym(m) == m.symbol = sym
    IN  SelectSeq(resp.results, OfSym)

Without(list, sym) ==
    LET Other(x) == x # sym
    IN  SelectSeq(list, Other)

\* the responses of the same scan over the list without sym
ResponsesWithout(sym) ==
    IF engine = "ScannerEngine"
    THEN { engine_scan([request EXCEPT !.symbols = Without(request.symbols, sym)], order) :
               order \in BatchOrders(valid_symbols(Without(request.symbols, sym),
                                                   request.behaviour),
                                     request.behaviour) }
    ELSE { enhanced_scan([request EXCEPT !.symbols = Without(request.symbols, sym)],
                         Database(SymbolsBefore(request.behaviour),
                                  DailyBefore(request.behaviour),
                                  [db |-> 0, api |-> 0])).response }

C9_Returned ==
    /\ response.outcome = "returned"
    /\ {"results", "statistics"} \subseteq DOMAIN response

C9_OthersUntouched ==
    \A f \in FailingSymbols : \A other \in SymbolsOf(request.symbols) \ {f} :
        \A without \in ResponsesWithout(f) :
            /\ without.outcome = "returned"
            /\ MatchesOf(response, other) = MatchesOf(without, other)

\* C9: whatever the symbols of the list do -- the identifier resolution
\* failing, the fetch failing or coming back empty, aggregation or matching
\* raising -- a finished scan of either engine has returned results and
\* statistics, and the matches it reports for any symbol other than a failing
\* one are those of the scan of the list without the failing symbol.
C9_NoSymbolAbortsScan ==
    response # Pending => C9_Returned /\ C9_OthersUntouched

\* the same with the instrument mapping loaded
C9_WhenInstrumentsLoad ==
    (response # Pending /\ request.instruments_ok) => C9_Returned /\ C9_OthersUntouched

\* the same when the mapping cannot be loaded, for EnhancedScannerEngine
C9_EnhancedAlways ==
    (response # Pending /\ engine = "EnhancedScannerEngine")
        => C9_Returned /\ C9_OthersUntouched

\* a scan returned matches of one symbol while another symbol of the list failed
C9_FailureBesideMatches ==
    /\ response # Pending
    /\ response.outcome = "returned"
    /\ \E f \in FailingSymbols : \E other \in SymbolsOf(request.symbols) \ FailingSymbols :
          MatchesOf(response, other) # <<>>

C9_EnhancedFailureBesideMatches ==
    C9_FailureBesideMatches /\ engine = "EnhancedScannerEngine"

C9_EngineFailureBesideMatches ==
    C9_FailureBesideMatches /\ engine = "ScannerEngine"

\* ScannerEngine.scan was left by the exception of load_equity_instruments
C9_ScanAborted ==
    /\ engine = "ScannerEngine"
    /\ response # Pending
    /\ response.outcome = "raised"

----------------------------------------------------------------------------
(* C10: a transient failure of the upstream request made by                   *)
(* DhanClient.get_historical_data is retried, with a delay that grows with    *)
(* the attempt number, for at most 3 attempts: a finished call whose first    *)
(* request raised and whose next request would succeed has returned the       *)
(* bars, and a call in which a request raised hands back the empty frame      *)
(* only after the last attempt.                                               *)

C10_Finished == pc = "idle" /\ result # "none" /\ func = "get_historical_data"

C10_RetriedUntilSuccess ==
    C10_Finished =>
        /\ attempt <= retries
        /\ \A i \in 1 .. Len(slept) - 1 : slept[i] < slept[i + 1]
        /\ (plan[1] = "raise" /\ plan[2] = "ok") => result = "bars"
        /\ (result = "empty" /\ \E k \in 1 .. attempt : plan[k] = "raise")
              => attempt = retries

----------------------------------------------------------------------------
(* C11 *)

C11_Finished == pc = "idle" /\ result # "none" /\ func = "get_historical_data"

\* the rows of a as a bag
BagOfRows(a) ==
    [r \in { a[i] : i \in 1 .. Len(a) } |-> Cardinality({ i \in 1 .. Len(a) : a[i] = r })]

C11_WitnessRaise ==
    /\ C11_Finished
    /\ plan[attempt] = "raise"
    /\ returned = <<>>

----------------------------------------------------------------------------
(* C12 *)

StartedThreads == { t \in Threads : started[t] # NotStarted }

\* the calls that started in the second beginning at tick w
StartedWithin(w) ==
    { t \in StartedThreads : w <= started[t] /\ started[t] < w + TicksPerSecond }

\* C12: however the worker threads interleave inside the wrapper, the start
\* times of any two underlying calls are at least min_interval (1/3 second)
\* apart, and so no more than calls_per_second calls start in any window of
\* one second.
C12_CallsSpacedApart ==
    /\ \A t, u \in StartedThreads :
          t # u => Abs(started[t] - started[u]) >= min_interval
    /\ \A w \in 0 .. MaxTicks : Cardinality(StartedWithin(w)) <= calls_per_second

----------------------------------------------------------------------------
(* C13 *)

\* C13: the breakout_amount of a match is second.high - first.high when the
\* match is bullish and first.low - second.low when it is bearish, and it is
\* strictly positive in both directions (prices are whole numbers here, so
\* rounding to two decimals changes nothing).
C13_BreakoutAmount ==
    (match # Pending /\ match.matched) =>
        /\ match.direction = "bullish" => match.breakout_amount = c2.high - c1.high
        /\ match.direction = "bearish" => match.breakout_amount = c1.low - c2.low
        /\ match.breakout_amount > 0

\* the bullish half of C13
C13_BullishBreakout ==
    (match # Pending /\ match.matched /\ match.direction = "bullish") =>
        /\ match.breakout_amount = c2.high - c1.high
        /\ match.breakout_amount > 0

----------------------------------------------------------------------------
(* C14 *)

\* C14: every match scan_symbol returns, on any timeframe and whatever bars
\* the upstream handed back, carries a rejection_strength between 0 and 100
\* (held in hundredths of a percent).
C14_RejectionInRange ==
    scanned # Pending =>
        \A n \in 1 .. Len(scanned.results) :
            /\ 0 <= scanned.results[n].rejection_strength
            /\ scanned.results[n].rejection_strength <= 10000

\* the same for the weekly and monthly scans, whose bars pass validate_ohlc
C14_AggregatedInRange ==
    (scanned # Pending /\ timeframe \in {"1W", "1M"}) =>
        \A n \in 1 .. Len(scanned.results) :
            /\ 0 <= scanned.results[n].rejection_strength
            /\ scanned.results[n].rejection_strength <= 10000

\* a weekly or monthly scan returned a match
C14_AggregatedMatch ==
    /\ scanned # Pending
    /\ timeframe \in {"1W", "1M"}
    /\ scanned.results # <<>>

----------------------------------------------------------------------------
(* C15 *)

C15_Results(m) == scan_symbol(df, "1D", m, min_days).results

C15_Set(results) == { results[n] : n \in 1 .. Len(results) }

\* C15: on the daily scan of ten consecutive daily bars in which only day 3 is
\* dominant (body 85% of range, 5% of open) and day 4 is an indecision bar
\* (body 10%) breaking day 3's high and closing inside its body, a filter of 4
\* gives exactly one match, bullish, of day 3 with day 4; a filter of 6 gives
\* none; and no match appears when the filter is raised.
C15_OneMatchThenNone ==
    (scanned # Pending /\ timeframe = "1D") =>
        /\ min_body_move_pct = 4 =>
              /\ Len(scanned.results) = 1
              /\ scanned.results[1].pattern_direction = "bullish"
              /\ scanned.results[1].idx1 = 3
              /\ scanned.results[1].idx2 = 4
              /\ scanned.results[1].marubozu = to_candle(df[3])
              /\ scanned.results[1].doji = to_candle(df[4])
        /\ min_body_move_pct = 6 => scanned.results = <<>>
        /\ \A m \in min_body_move_pct .. MaxMove + 1 :
              C15_Set(C15_Results(m)) \subseteq C15_Set(scanned.results)

\* the daily scan with the filter at 4 has returned its match
C15_Witness ==
    /\ scanned # Pending
    /\ timeframe = "1D"
    /\ min_body_move_pct = 4
    /\ Len(df) = 10
    /\ scanned.results # <<>>

----------------------------------------------------------------------------
(* C18 *)

\* the candles scan_symbol hands to matches_marubozu_doji
C18_Passed ==
    { scanned.df_agg[i] : i \in { scanned.pairs[n] + k :
                                    n \in 1 .. Len(scanned.pairs), k \in {0, 1} } }

C18_AggregatedValid ==
    (scanned # Pending /\ ~scanned.raised /\ timeframe \in {"1W", "1M"}) =>
        \A row \in C18_Passed : validate_ohlc(row)

----------------------------------------------------------------------------
(* C16 *)

C16_Key(date) ==
    IF timeframe = "1W" THEN <<IsoFromDays(date).year, IsoFromDays(date).week>>
    ELSE <<CivilFromDays(date).y, CivilFromDays(date).m>>

\* C16: the output of aggregate_to_weekly / aggregate_to_monthly has at most one
\* bar per period key, no bar for a partition of fewer than min_days members,
\* a bar for every partition of at least min_days members whose bar passes the
\* OHLC check, and strictly ascending dates.
C16_OneBarPerPeriod ==
    (scanned # Pending /\ timeframe \in {"1W", "1M"}) =>
        LET out == scanned.df_agg
        IN  /\ \A m, n \in 1 .. Len(out) :
                  C16_Key(out[m].date) = C16_Key(out[n].date) => m = n
            /\ \A n \in 1 .. Len(out) :
                  Cardinality(C4_Members(df, timeframe, C16_Key(out[n].date))) >= min_days
            /\ \A k \in C4_Keys(df, timeframe) :
                  LET members == C4_Members(df, timeframe, k)
                  IN  (Cardinality(members) >= min_days
                         /\ validate_ohlc(C4_Expected(df, members))) =>
                          \E n \in 1 .. Len(out) : C16_Key(out[n].date) = k
            /\ \A n \in 1 .. Len(out) - 1 : out[n].date < out[n + 1].date

\* with min_days = 2, a frame of a two-day period and a one-day period has
\* given the bar of the two-day period only
C16_Witness ==
    /\ scanned # Pending
    /\ timeframe \in {"1W", "1M"}
    /\ min_days = 2
    /\ Len(df) = 3
    /\ Cardinality(C4_Keys(df, timeframe)) = 2
    /\ Len(scanned.df_agg) = 1

\* with min_days = 1 a one-day period has given a bar
C16_SingleDayIncluded ==
    /\ scanned # Pending
    /\ timeframe \in {"1W", "1M"}
    /\ min_days = 1
    /\ \E n \in 1 .. Len(scanned.df_agg) : scanned.df_agg[n].days = 1

----------------------------------------------------------------------------
(* C17 *)

\* low <= open <= high and low <= close <= high
C17_Sane(row) ==
    /\ row.low <= row.open /\ row.open <= row.high
    /\ row.low <= row.close /\ row.close <= row.high

\* the periods of df for which a candidate bar is built
C17_Candidates ==
    { k \in C4_Keys(df, timeframe) :
        Cardinality(C4_Members(df, timeframe, k)) >= min_days }

\* df without the rows of period k
C17_WithoutPeriod(k) ==
    LET Other(r) == C16_Key(r.date) # k
    IN  SelectSeq(df, Other)

\* C17: every bar emitted by aggregate_to_weekly / aggregate_to_monthly has
\* low <= open <= high and low <= close <= high; a candidate bar is dropped
\* exactly when it violates this (a zero-range candidate that satisfies it is
\* emitted); and the output with a candidate dropped is the output for the
\* frame without that period.
C17_DroppedIffMalformed ==
    (scanned # Pending /\ timeframe \in {"1W", "1M"}) =>
        LET out == scanned.df_agg
        IN  /\ \A n \in 1 .. Len(out) : C17_Sane(out[n])
            /\ \A k \in C17_Candidates :
                  LET want == C4_Expected(df, C4_Members(df, timeframe, k))
                      emitted == \E n \in 1 .. Len(out) : out[n] = want
                  IN  /\ emitted <=> C17_Sane(want)
                      /\ ~emitted =>
                            out = aggregate(C17_WithoutPeriod(k), timeframe, min_days)

\* a zero-range candidate has been emitted and a malformed candidate of
\* another period dropped
C17_Witness ==
    /\ scanned # Pending
    /\ timeframe \in {"1W", "1M"}
    /\ \E n \in 1 .. Len(scanned.df_agg) :
          scanned.df_agg[n].high = scanned.df_agg[n].low
    /\ \E k \in C17_Candidates :
          ~C17_Sane(C4_Expected(df, C4_Members(df, timeframe, k)))

----------------------------------------------------------------------------
(* C19 *)

\* the indices i for which (i, i + 1) is in the list of consecutive pairs
C19_Returned == { scanned.pairs[n] : n \in 1 .. Len(scanned.pairs) }

\* (y2, m2) is the calendar month after (y1, m1)
C19_NextMonth(a, b) ==
    \/ a.y = b.y /\ b.m = a.m + 1
    \/ b.y = a.y + 1 /\ a.m = 12 /\ b.m = 1

\* C19: for an ordered sequence of monthly bars, check_consecutive_periods
\* returns (i, i + 1) exactly when the (year, month) of bar i + 1 is the
\* calendar successor of bar i's: the next month of the same year, or January
\* of the next year after December.
C19_MonthlyAdjacency ==
    (scanned # Pending /\ timeframe = "1M") =>
        \A i \in 1 .. Len(scanned.df_agg) - 1 :
            (i \in C19_Returned) <=>
                C19_NextMonth(CivilFromDays(scanned.df_agg[i].date),
                              CivilFromDays(scanned.df_agg[i + 1].date))

\* monthly bars December, January, December: the first pair is returned, the
\* second is not
C19_Witness ==
    /\ scanned # Pending
    /\ timeframe = "1M"
    /\ Len(scanned.df_agg) >= 3
    /\ CivilFromDays(scanned.df_agg[1].date).m = 12
    /\ CivilFromDays(scanned.df_agg[2].date).m = 1
    /\ CivilFromDays(scanned.df_agg[3].date).m = 12
    /\ C19_Returned = {1}

----------------------------------------------------------------------------
(* C20 *)

C20_Pairs == { scanned.pairs[n] : n \in 1 .. Len(scanned.pairs) }

C20_DailyAllPairs ==
    /\ scanned # Pending
    /\ timeframe = "1D"
    /\ Len(scanned.df_agg) = 4
    /\ C20_Pairs = {1, 2, 3}

\* monthly bars December, January of the next year: the pair is returned
C20_MonthlyYearEnd ==
    /\ scanned # Pending
    /\ timeframe = "1M"
    /\ Len(scanned.df_agg) = 2
    /\ CivilFromDays(scanned.df_agg[1].date).m = 12
    /\ C20_Pairs = {1}

----------------------------------------------------------------------------
(* C21 *)

\* the weekdays of [start_date, end_date] with fewer than 10 weekdays after them
C21_RecentWeekdays(start_date, end_date) ==
    { d \in start_date .. end_date :
        /\ weekday(d) < 5
        /\ Cardinality({ e \in d + 1 .. end_date : weekday(e) < 5 }) < 10 }

\* whether the store holds a row of the symbol for the date
C21_HasRow(symtab, table, sym, d) ==
    \E s \in symtab : \E r \in table :
        s.symbol = sym /\ r.symbol_id = s.symbol_id /\ r.trade_date = d

C21_GapSound(symtab, table, sym, start_date, end_date, missing) ==
    \A i \in 1 .. Len(missing) :
        /\ weekday(missing[i]) < 5
        /\ start_date <= missing[i] /\ missing[i] <= end_date
        /\ ~C21_HasRow(symtab, table, sym, missing[i])
        /\ missing[i] \in C21_RecentWeekdays(start_date, end_date)

\* C21: every date returned by _identify_missing_dates is a weekday of the span
\* [start, end] without a row in the store for the symbol, among the 10 most
\* recent weekdays of the span.
C21_MissingAreRecentWeekdays ==
    CallMade =>
        C21_GapSound(call.before.symbols, call.before.daily_ohlc, call.q.symbol,
                     call.q.now - call.q.days_back, call.q.now, call.missing)

\* the same for symbols with a row in the symbols table, over spans of up to
\* 20 days ending today
C21_KnownSymbolGap ==
    \A sym \in SdmSymbols, span \in 0 .. 20 :
        SymbolRows(symbols, sym) # {} =>
            C21_GapSound(symbols, daily_ohlc, sym, today - span, today,
                identify_missing_dates(
                    get_daily_from_db(symbols, daily_ohlc, sym, today - span, today),
                    today - span, today))

\* a known symbol with a stored bar and a span of more than 10 weekdays
C21_LongSpanReached ==
    /\ daily_ohlc # {}
    /\ Len(identify_missing_dates(
               get_daily_from_db(symbols, daily_ohlc, "RELIANCE", today - 20, today),
               today - 20, today)) = 9

----------------------------------------------------------------------------
(* C22 *)

\* how many times the call did what
C22_Count(what) ==
    Cardinality({ i \in 1 .. Len(call.events) : call.events[i] = what })

----------------------------------------------------------------------------
(* C23 *)

\* n >= floor(days * (250 / 365) * 0.8), without the division:
\* n + 1 > days * 250 * 8 / (365 * 10)
C23_MeetsThreshold(n, days) == (n + 1) * 365 * 10 > days * 250 * 8

C23_EmptyZeroSpan ==
    /\ checked.done
    /\ checked.df = <<>>
    /\ checked.end_date = checked.start_date
    /\ ~checked.result

----------------------------------------------------------------------------
(* C24 *)

\* the symbols of the batches before / after batch i
C24_Earlier(i) ==
    { batch_valid(batch_request)[n] : n \in 1 .. Min2(i * 10, Len(batch_valid(batch_request))) }

C24_Later(i) ==
    { batch_valid(batch_request)[n] : n \in (i + 1) * 10 + 1 .. Len(batch_valid(batch_request)) }

C24_Mapped(sym) == batch_request.kind[sym] # "unmapped"

C24_Batches == (Len(batch_valid(batch_request)) + 9) \div 10

\* C24: at most 3 fetches are in flight at any time; symbols go out in batches
\* of at most 10, every fetch of a batch is over before the next batch is
\* submitted, one pause lies between consecutive batches and none after the
\* last; a symbol whose fetch gave no data or raised is fetched exactly once
\* more, and the result holds exactly the symbols that gave a non-empty frame.
C24_BatchDiscipline ==
    /\ Cardinality(in_flight) <= 3
    /\ Len(work_queue) + Cardinality(in_flight) <= 10
    /\ bpc \in {"submit", "fetching"} =>
          /\ \A sym \in C24_Earlier(batch_i) :
                sym \notin in_flight /\ fetch_count[sym] = 1
          /\ \A sym \in C24_Later(batch_i) : fetch_count[sym] = 0
          /\ batch_pauses = batch_i
    /\ bpc = "submit" => in_flight = {} /\ work_queue = <<>>
    /\ bpc \in {"retry", "done"} =>
          batch_pauses = IF C24_Batches = 0 THEN 0 ELSE C24_Batches - 1
    /\ bpc = "done" =>
          \A sym \in 1 .. batch_request.count :
              /\ fetch_count[sym] =
                    IF ~C24_Mapped(sym) THEN 0
                    ELSE IF fetch_outcome(batch_request.kind[sym], 1) = "data" THEN 1
                    ELSE 2
              /\ batch_results[sym] # "none" <=>
                    /\ C24_Mapped(sym)
                    /\ \E n \in {1, 2} :
                          fetch_outcome(batch_request.kind[sym], n) = "data"

\* a call over two batches has returned after one pause, with a symbol whose
\* frame came from the individual retry
C24_Witness ==
    /\ bpc = "done"
    /\ Len(batch_valid(batch_request)) > 10
    /\ batch_pauses = 1
    /\ \E sym \in 1 .. batch_request.count : batch_results[sym] = "retry"

\* three fetches are in flight while others of the batch wait
C24_PoolFull ==
    /\ Cardinality(in_flight) = 3
    /\ work_queue # <<>>

----------------------------------------------------------------------------
(* C25 *)

\* the table after the call with first and then the call with second
C25_Serial(before, first, second) ==
    bulk_insert_daily_ohlc("postgres",
        bulk_insert_daily_ohlc("postgres", before, 0, first).table, 0, second).table

C25_AllDone == txn # <<>> /\ \A w \in Workers : txn[w].at = "done"

\* C25: when concurrent bulk_insert_daily_ohlc calls on disjoint symbols have
\* all ended, the store is what either serial order of the calls gives: one row
\* per (symbol_id, trade_date), none lost, none carrying another symbol's
\* values.
C25_DisjointUpsertsSerial ==
    C25_AllDone =>
        /\ \A r, q \in daily_ohlc : KeyOf(r) = KeyOf(q) => r = q
        /\ \A r \in store_before : \E q \in daily_ohlc : KeyOf(q) = KeyOf(r)
        /\ daily_ohlc = C25_Serial(store_before, txn[1].data, txn[2].data)
        /\ daily_ohlc = C25_Serial(store_before, txn[2].data, txn[1].data)

\* both calls have ended on a store that held rows of both symbols, each call
\* having changed the stored row of its symbol
C25_Witness ==
    /\ C25_AllDone
    /\ store_before # {}
    /\ \A r \in store_before : r \notin daily_ohlc
    /\ Cardinality(daily_ohlc) > Cardinality(store_before)

\* the two transactions are open at once, each with a row written
C25_BothOpen ==
    /\ txn # <<>>
    /\ \A w \in Workers : txn[w].at = "open" /\ txn[w].written # {}

----------------------------------------------------------------------------
(* C26 *)

\* the divisors of the divisions made by matches_marubozu_doji on the two
\* candles and by filter_by_min_body_move on each of them
C26_Divisors ==
    matcher_divisors(c1, c2, doji_threshold)
    \cup body_move_pct_divisors(c1) \cup body_move_pct_divisors(c2)

C26_InputsUnchanged == [][DetectAgain => (c1' = c1 /\ c2' = c2)]_vars

C26_MatchRepeated ==
    /\ match # Pending
    /\ match_again # Pending
    /\ match.matched
    /\ c2.open = 0

----------------------------------------------------------------------------
(* C27 *)

\* the detection loop of the enhanced and sqlite engines reports a match
\* with direction d on (c1, c2)
C27_LoopReports(d) ==
    /\ enhanced_pair_matches(c1, c2, min_body_move_pct)
    /\ d = (IF c1.close > c1.open THEN "bullish" ELSE "bearish")

\* PatternDetector with its default thresholds followed by
\* filter_by_min_body_move reports a match with direction d on (c1, c2)
C27_OriginalReports(d) ==
    LET original == MatchPair(c1, c2, engine_doji_threshold, min_body_move_pct)
    IN  original.matched /\ original.direction = d

\* C27: for every two bars and every min_body_move_pct, the loop of
\* _detect_marubozu_doji_patterns reports a match with direction d exactly
\* when PatternDetector with default thresholds followed by
\* filter_by_min_body_move reports a match with direction d.
C27_ExactCopy ==
    match # Pending =>
        \A d \in {"bullish", "bearish"} : C27_LoopReports(d) <=> C27_OriginalReports(d)

\* what does hold: with the doji bound 25 in the detector, a bullish first bar
\* and a non-zero open, the loop and the detector agree
C27_BullishAgreesAt25 ==
    (match # Pending /\ c1.close > c1.open /\ c1.open # 0) =>
        (enhanced_pair_matches(c1, c2, min_body_move_pct)
            <=> MatchPair(c1, c2, enhanced_doji_threshold, min_body_move_pct).matched)

----------------------------------------------------------------------------
(* C28 *)

\* the patterns reported
C28_Reported == { agg_patterns.patterns[n] : n \in 1 .. Len(agg_patterns.patterns) }

\* C28: in a weekly or monthly scan of the enhanced or the sqlite engine,
\* every reported match pairs two aggregated bars whose periods are immediate
\* calendar successors, also when a week or month in between has no daily bar.
C28_OnlyAdjacentPeriods ==
    agg_patterns.done =>
        \A p \in C28_Reported : CalendarSuccessor(p.marubozu.date, p.doji.date, agg_tf)

\* what does hold: the two bars of a match are neighbours among the periods
\* that have a daily bar
C28_NeighboursAmongPresent ==
    agg_patterns.done =>
        \A p \in C28_Reported :
            /\ p.marubozu.date < p.doji.date
            /\ ~ \E i \in 1 .. Len(agg_daily) :
                   /\ PeriodKey(agg_daily[i].date, agg_tf) # PeriodKey(p.marubozu.date, agg_tf)
                   /\ PeriodKey(agg_daily[i].date, agg_tf) # PeriodKey(p.doji.date, agg_tf)
                   /\ p.marubozu.date < agg_daily[i].date
                   /\ agg_daily[i].date < p.doji.date

\* a match on two adjacent periods is reported
C28_AdjacentReported ==
    /\ agg_patterns.done
    /\ \E p \in C28_Reported : CalendarSuccessor(p.marubozu.date, p.doji.date, agg_tf)

----------------------------------------------------------------------------
(* C29 *)

\* the number of upstream calls made so far
C29_Calls == Cardinality({ i \in 1 .. Len(fwr_log) : fwr_log[i] = "call" })

\* the attempts that returned a non-empty frame
C29_Good == { i \in 1 .. fwr_call.max_retries : fwr_call.upstream[i] = "data" }

\* the safety part: at most max_retries upstream calls; a returned frame is
\* that of the first non-empty result and no call follows it; None is
\* returned without any call when there is no security id, and otherwise
\* after max_retries attempts none of which gave data; a sleep stands between
\* any two consecutive calls and nowhere else
C29_Safe ==
    /\ C29_Calls <= fwr_call.max_retries
    /\ fwr_pc \in {"start", "loop", "after", "done"}
    /\ fwr_pc = "done" =>
         /\ fwr_result.returned
         /\ ~fwr_result.none =>
              /\ fwr_result.frame \in C29_Good
              /\ \A i \in C29_Good : fwr_result.frame <= i
              /\ C29_Calls = fwr_result.frame
         /\ fwr_result.none =>
              IF fwr_call.has_id
              THEN C29_Calls = fwr_call.max_retries /\ C29_Good = {}
              ELSE fwr_log = <<>>
         /\ \A i \in 1 .. Len(fwr_log) :
              IF i % 2 = 1 THEN fwr_log[i] = "call" ELSE fwr_log[i] = "sleep"
         /\ fwr_log # <<>> => fwr_log[Len(fwr_log)] = "call"

\* C29: _fetch_with_retries always terminates and never raises; it calls the
\* upstream at most max_retries times, returns the first non-empty result
\* without further calls, returns None after max_retries empty or failed
\* attempts, returns None with no call when the symbol has no security id, and
\* sleeps between consecutive attempts but not after the last one.
C29_TerminatesWithinRetries == []C29_Safe /\ <>(fwr_pc = "done")

\* the default five attempts were all made, none gave data, None was returned
C29_Witness ==
    /\ fwr_pc = "done"
    /\ fwr_call.max_retries = default_fetch_retries
    /\ fwr_result.none
    /\ C29_Calls = default_fetch_retries
    /\ Len(fwr_log) = 2 * default_fetch_retries - 1

\* the third call gave data after an empty frame and an exception
C29_ThirdAttemptReturned ==
    /\ fwr_pc = "done"
    /\ fwr_result.returned /\ ~fwr_result.none
    /\ fwr_result.frame = 3
    /\ fwr_call.upstream[1] = "empty" /\ fwr_call.upstream[2] = "raise"

----------------------------------------------------------------------------
(* C30 *)

\* the threads that began run_scan and have not left its finally block
C30_Running ==
    { t \in WebRequests : web_threads[t] \in {"scanning", "returned", "raised"} }

\* C30: for every interleaving of concurrent POST /api/scan requests, a
\* request that arrives while a scan is running is rejected with "Scan
\* already in progress", no two threads are inside scanner_engine.scan at
\* once, and scan_in_progress is false once the running scan has finished.
C30_AtMostOneScan ==
    /\ \A r \in WebRequests :
          (web_requests[r].at # "arrived" /\ web_requests[r].scan_running)
              => web_requests[r].at = "Scan already in progress"
    /\ Cardinality(Scanning(web_threads)) <= 1
    /\ (C30_Running = {} /\ \A t \in WebRequests : web_threads[t] # "ready")
          => ~scan_in_progress

\* what does hold: a request that reads the flag as true is rejected, and the
\* flag is false when no thread is between its start and the end of finally
C30_FlagAsRead ==
    /\ \A r \in WebRequests :
          web_requests[r].at = "started" =>
              (scanner_ready /\ web_requests[r].has_symbols)
    /\ (C30_Running = {} /\ \A t \in WebRequests : web_threads[t] # "ready")
          => ~scan_in_progress

\* a request was rejected because a scan was in progress
C30_Rejected ==
    \E r \in WebRequests :
        /\ web_requests[r].at = "Scan already in progress"
        /\ web_requests[r].scan_running

====
